---- MODULE Spec2Model ----
(***************************************************************************)
(* Model of the Mantis Clone issue tracker: one SQLite database (users,    *)
(* issues, labels, comments, milestones) served by five front ends:        *)
(*   "rest"     the open Express server          (src/unnamed/part_000)    *)
(*   "restAuth" the Express server with checkAuth (src/app.js:243-868)     *)
(*   "soap"     the SOAP service                  (src/src/soap-server.js) *)
(*   "graphql"  the Apollo resolvers    (src/src/graphql-server.js:1-681)  *)
(*   "grpc"     the gRPC services     (src/src/graphql-server.js:683-1918) *)
(* A behaviour runs one front end (variable transport) against the         *)
(* database and that front end's session registry.  Each action is one     *)
(* request handler, run to completion; resp is the answer it sends.        *)
(* Time is counted in ticks of half an hour.  uuidv4() is modelled as the  *)
(* next unused number.  bcrypt is modelled by Hash/Compare.  The           *)
(* express-rate-limit middleware of app.js and storage failures of the     *)
(* SQLite driver are not modelled: a request here is one that reaches the  *)
(* handler and a statement fails only on a constraint.                     *)
(* The later sections add: the callbacks of concurrent calls, one action   *)
(* per callback (SpecRegister, SpecRace); the handlers' answers when       *)
(* bcrypt fails (SpecFaulty); the JWT / in-memory variant of auth.js,      *)
(* store.js and routes.js (SpecStore, SpecAuth); and the SOAP session map  *)
(* under a fair clock (SpecLive).                                          *)
(***************************************************************************)
EXTENDS Integers, FiniteSets, Sequences, TLC

\* ---------------------------------------------------------------- bounds
MaxTokens == 2
MaxTime == 2
\* rows ever inserted into the issues, comments, labels and milestones tables
MaxRows == 1

\* 60 * 60 * 1000 ms (one hour), in ticks of half an hour
SessionTtl == 2

Transports == {"rest", "restAuth", "soap", "graphql", "grpc"}
RestVariants == {"rest", "restAuth"}
TokenTransports == {"soap", "graphql", "grpc"}

\* request inputs; "" is the empty (falsy) string
Usernames == {"alice", "bob"}
\* passwords sent to register, and passwords sent to login
RegisterPasswords == {"pw123"}
Passwords == {"pw123", "wrong"}
NoToken == 0
TokenInputs == 0..MaxTokens

VARIABLES
    transport,   \* the front end this behaviour runs
    now,         \* Date.now(), in ticks
    users,       \* table users: set of rows [id, username, password]
    sessions,    \* the session registry: token -> entry
    tokenCount,  \* number of tokens uuidv4() has generated so far
    loginAt,     \* history, kept for the token registries: token -> time of
                 \* the login that returned it, until a logout succeeds on it
    loggedOut,   \* history: tokens a successful logout was performed on
    issues,      \* table issues: id -> row
    comments,    \* table comments: id -> row
    labels,      \* table labels: id -> row
    milestones,  \* table milestones: id -> row
    idCount,     \* number of row ids uuidv4() has generated so far
    req,         \* the request handled last
    resp,        \* the response sent to it
    calls        \* the calls in flight whose callbacks interleave: caller -> call

authVars == <<users, sessions, tokenCount, loginAt, loggedOut>>

dataVars == <<issues, comments, labels, milestones, idCount>>

vars == <<transport, now, authVars, dataVars, req, resp, calls>>

\* ------------------------------------------------------------- responses
\* req is the request handled last (operation, credentials or token sent),
\* resp the answer: code, message, and the user / token it returns
Request(op, user, pw, token) == [op |-> op, user |-> user, pw |-> pw, token |-> token]

Response(code, msg, user, token) == [code |-> code, msg |-> msg, user |-> user, token |-> token]

Answer(request, code, msg, user, token) ==
    req' = request /\ resp' = Response(code, msg, user, token)

NoRequest == Request("none", "", "", 0)

\* no call is in flight: each handler runs from request to response in one step
NoCalls == << >>

NoResponse == Response("", "", "", 0)

\* ---------------------------------------------------------------- bcrypt
Hash(password) == [alg |-> "bcrypt", cost |-> 10, of |-> password]

Compare(password, hashed) == hashed.of = password

\* ----------------------------------------------------------- table users
UserByName(tbl, username) ==
    IF \E r \in tbl : r.username = username
    THEN CHOOSE r \in tbl : r.username = username
    ELSE [id |-> 0, username |-> "", password |-> Hash("")]

HasUser(tbl, username) == \E r \in tbl : r.username = username

\* mutant: the users table without its UNIQUE(username) constraint
InsertUser_NoUnique(tbl, username, hashed) ==
    [ok |-> TRUE,
     tbl |-> tbl \cup {[id |-> Cardinality(tbl) + 1, username |-> username,
                        password |-> hashed]},
     id |-> Cardinality(tbl) + 1]

\* INSERT INTO users: AUTOINCREMENT id, UNIQUE(username)
InsertUser(tbl, username, hashed) ==
    IF \E r \in tbl : r.username = username
    THEN [ok |-> FALSE, tbl |-> tbl, id |-> 0]
    ELSE [ok |-> TRUE,
          tbl |-> tbl \cup {[id |-> Cardinality(tbl) + 1, username |-> username,
                             password |-> hashed]},
          id |-> Cardinality(tbl) + 1]

\* ------------------------------------------------------ session registry
\* mutant: a token generator that hands out a logged-out token again
NewToken_Reuses ==
    IF loggedOut # {} THEN CHOOSE t \in loggedOut : TRUE ELSE tokenCount + 1

\* uuidv4(): a value never returned before
NewToken == tokenCount + 1

PutSession(s, t, entry) == [x \in (DOMAIN s) \cup {t} |-> IF x = t THEN entry ELSE s[x]]

\* mutant: a delete that empties the registry
DeleteSession_ClearsAll(s, t) == [x \in {} |-> s[x]]

\* mutant: a delete that removes nothing
DeleteSession_Keeps(s, t) == s

\* sessions.delete(token) / req.session.destroy()
DeleteSession(s, t) == [x \in (DOMAIN s) \ {t} |-> s[x]]

NoRows == [x \in {} |-> [title |-> ""]]

NoSessions == [x \in {} |-> [user |-> "", expires |-> 0]]

\* soap-server.js validateSession
SoapValidateSession(s, sessionId, time) ==
    sessionId \in DOMAIN s /\ s[sessionId].expires > time

\* graphql-server.js validateSession (GraphQL): sessions.get(token), truthy
GqlValidateSession(s, sessionToken) == sessionToken \in DOMAIN s

\* graphql-server.js validateSession (gRPC): sessions.get(token), truthy
GrpcValidateSession(s, sessionToken) == sessionToken \in DOMAIN s

\* express-session loads req.session from the store entry of the cookie;
\* checkAuth passes when req.session.user is set.  The expiry of store
\* entries (cookie maxAge, touch, clearExpired) is the work of
\* express-session and connect-sqlite3, not of the handlers: the model keeps
\* a store entry until a handler destroys it.
RestCheckAuth(s, cookie) == cookie \in DOMAIN s

\* does the front end tr accept token t as a session at this time
Validate(tr, s, t, time) ==
    CASE tr \in RestVariants -> RestCheckAuth(s, t)
      [] tr = "soap" -> t # NoToken /\ SoapValidateSession(s, t, time)
      [] tr = "graphql" -> GqlValidateSession(s, t)
      [] tr = "grpc" -> GrpcValidateSession(s, t)

Init ==
    /\ transport \in Transports
    /\ now = 0
    /\ users = {}
    /\ sessions = NoSessions
    /\ tokenCount = 0
    /\ loginAt = [x \in {} |-> 0]
    /\ loggedOut = {}
    /\ issues = NoRows
    /\ comments = NoRows
    /\ labels = NoRows
    /\ milestones = NoRows
    /\ idCount = 0
    /\ req = NoRequest
    /\ resp = NoResponse
    /\ calls = NoCalls

\* ---------------------------------------------------------------- register
\* part_000:284-328, app.js:98-140 and app.js:396-442 (the same statements)
RestRegister ==
    /\ transport \in RestVariants
    /\ \E username \in Usernames \cup {""}, password \in RegisterPasswords \cup {""} :
         IF username = "" \/ password = ""
         THEN /\ Answer(Request("register", username, password, 0),
                        "INVALID_INPUT", "Username and password are required.", "", 0)
              /\ UNCHANGED users
         ELSE LET ins == InsertUser(users, username, Hash(password)) IN
              IF ~ins.ok
              THEN /\ Answer(Request("register", username, password, 0),
                             "USER_EXISTS", "Username already taken.", "", 0)
                   /\ UNCHANGED users
              ELSE /\ users' = ins.tbl
                   /\ Answer(Request("register", username, password, 0),
                             "OK", "User registered successfully!", "", 0)
    /\ UNCHANGED dataVars
    /\ UNCHANGED <<calls, transport, now, sessions, tokenCount, loginAt, loggedOut>>

SoapRegisterUser ==
    /\ transport = "soap"
    /\ \E username \in Usernames \cup {""}, password \in RegisterPasswords \cup {""} :
         IF username = "" \/ password = ""
         THEN /\ Answer(Request("register", username, password, 0),
                        "INVALID_INPUT", "Username and password are required.", "", 0)
              /\ UNCHANGED users
         ELSE LET ins == InsertUser(users, username, Hash(password)) IN
              IF ~ins.ok
              THEN /\ Answer(Request("register", username, password, 0),
                             "USER_EXISTS", "Username already taken.", "", 0)
                   /\ UNCHANGED users
              ELSE /\ users' = ins.tbl
                   /\ Answer(Request("register", username, password, 0),
                             "OK", "User registered successfully!", "", 0)
    /\ UNCHANGED dataVars
    /\ UNCHANGED <<calls, transport, now, sessions, tokenCount, loginAt, loggedOut>>

\* a GraphQL error carries only its message
GqlRegisterUser ==
    /\ transport = "graphql"
    /\ \E username \in Usernames \cup {""}, password \in RegisterPasswords \cup {""} :
         IF username = "" \/ password = ""
         THEN /\ Answer(Request("register", username, password, 0),
                        "ERROR", "Username and password are required.", "", 0)
              /\ UNCHANGED users
         ELSE LET ins == InsertUser(users, username, Hash(password)) IN
              IF ~ins.ok
              THEN /\ Answer(Request("register", username, password, 0),
                             "ERROR", "Username already taken.", "", 0)
                   /\ UNCHANGED users
              ELSE /\ users' = ins.tbl
                   /\ Answer(Request("register", username, password, 0),
                             "OK", "User registered successfully!", "", 0)
    /\ UNCHANGED dataVars
    /\ UNCHANGED <<calls, transport, now, sessions, tokenCount, loginAt, loggedOut>>

\* gRPC selects the username first, then hashes, then inserts
GrpcRegister ==
    /\ transport = "grpc"
    /\ \E username \in Usernames \cup {""}, password \in RegisterPasswords \cup {""} :
         IF username = "" \/ password = ""
         THEN /\ Answer(Request("register", username, password, 0),
                        "INVALID_ARGUMENT", "Username and password are required.", "", 0)
              /\ UNCHANGED users
         ELSE IF HasUser(users, username)
         THEN /\ Answer(Request("register", username, password, 0),
                        "ALREADY_EXISTS", "Username already taken", "", 0)
              /\ UNCHANGED users
         ELSE LET ins == InsertUser(users, username, Hash(password)) IN
              IF ~ins.ok
              THEN /\ Answer(Request("register", username, password, 0),
                             "INTERNAL", "UNIQUE constraint failed: users.username", "", 0)
                   /\ UNCHANGED users
              ELSE /\ users' = ins.tbl
                   /\ Answer(Request("register", username, password, 0),
                             "OK", "User registered successfully", "", 0)
    /\ UNCHANGED dataVars
    /\ UNCHANGED <<calls, transport, now, sessions, tokenCount, loginAt, loggedOut>>

\* ------------------------------------------------------------------- login
\* Did the SELECT find a row whose hash matches the password
CredentialsOk(tbl, username, password) ==
    HasUser(tbl, username) /\ Compare(password, UserByName(tbl, username).password)

SessionUser(tbl, username) ==
    [id |-> UserByName(tbl, username).id, username |-> username]

\* part_000:331-372, app.js:144-188 and app.js:446-491.  cookie is the
\* connect.sid the request carries (NoToken: none).  express-session hands
\* the handler the stored session of a live cookie and a newly generated
\* one otherwise; the handler sets req.session.user on it.
RestLogin ==
    /\ transport \in RestVariants
    /\ \E cookie \in TokenInputs, username \in Usernames \cup {""},
          password \in Passwords \cup {""} :
         IF username = "" \/ password = ""
         THEN /\ Answer(Request("login", username, password, cookie),
                        "INVALID_INPUT", "Username and password are required.", "", 0)
              /\ UNCHANGED <<sessions, tokenCount, loginAt>>
         ELSE IF ~HasUser(users, username)
         THEN /\ Answer(Request("login", username, password, cookie),
                        "INVALID_CREDENTIALS", "Invalid username or password.", "", 0)
              /\ UNCHANGED <<sessions, tokenCount, loginAt>>
         ELSE IF ~Compare(password, UserByName(users, username).password)
         THEN /\ Answer(Request("login", username, password, cookie),
                        "INVALID_CREDENTIALS", "Invalid username or password.", "", 0)
              /\ UNCHANGED <<sessions, tokenCount, loginAt>>
         ELSE LET sid == IF RestCheckAuth(sessions, cookie)
                         THEN cookie ELSE NewToken IN
              /\ sid <= MaxTokens
              /\ sessions' = PutSession(sessions, sid,
                                 [user |-> SessionUser(users, username)])
              /\ tokenCount' = IF RestCheckAuth(sessions, cookie) THEN tokenCount ELSE sid
              /\ UNCHANGED loginAt
              /\ Answer(Request("login", username, password, cookie),
                        "OK", "Session created successfully!", username, sid)
    /\ UNCHANGED dataVars
    /\ UNCHANGED <<calls, transport, now, users, loggedOut>>

SoapLoginUser ==
    /\ transport = "soap"
    /\ \E username \in Usernames \cup {""}, password \in Passwords \cup {""} :
         IF username = "" \/ password = ""
         THEN /\ Answer(Request("login", username, password, 0),
                        "INVALID_INPUT", "Username and password are required.", "", 0)
              /\ UNCHANGED <<sessions, tokenCount, loginAt>>
         ELSE IF ~HasUser(users, username)
         THEN /\ Answer(Request("login", username, password, 0),
                        "INVALID_CREDENTIALS", "Invalid username or password.", "", 0)
              /\ UNCHANGED <<sessions, tokenCount, loginAt>>
         ELSE IF ~Compare(password, UserByName(users, username).password)
         THEN /\ Answer(Request("login", username, password, 0),
                        "INVALID_CREDENTIALS", "Invalid username or password.", "", 0)
              /\ UNCHANGED <<sessions, tokenCount, loginAt>>
         ELSE /\ NewToken <= MaxTokens
              /\ sessions' = PutSession(sessions, NewToken,
                                 [user |-> SessionUser(users, username),
                                  expires |-> now + SessionTtl])
              /\ tokenCount' = NewToken
              /\ loginAt' = PutSession(loginAt, NewToken, now)
              /\ Answer(Request("login", username, password, 0),
                        "OK", "Session created successfully!", username, NewToken)
    /\ UNCHANGED dataVars
    /\ UNCHANGED <<calls, transport, now, users, loggedOut>>

\* sessions.set(sessionToken, user): the users row itself, no expiry
GqlLoginUser ==
    /\ transport = "graphql"
    /\ \E username \in Usernames \cup {""}, password \in Passwords \cup {""} :
         IF username = "" \/ password = ""
         THEN /\ Answer(Request("login", username, password, 0),
                        "ERROR", "Username and password are required.", "", 0)
              /\ UNCHANGED <<sessions, tokenCount, loginAt>>
         ELSE IF ~HasUser(users, username)
         THEN /\ Answer(Request("login", username, password, 0),
                        "ERROR", "Invalid credentials.", "", 0)
              /\ UNCHANGED <<sessions, tokenCount, loginAt>>
         ELSE IF ~Compare(password, UserByName(users, username).password)
         THEN /\ Answer(Request("login", username, password, 0),
                        "ERROR", "Invalid credentials.", "", 0)
              /\ UNCHANGED <<sessions, tokenCount, loginAt>>
         ELSE /\ NewToken <= MaxTokens
              /\ sessions' = PutSession(sessions, NewToken, UserByName(users, username))
              /\ tokenCount' = NewToken
              /\ loginAt' = PutSession(loginAt, NewToken, now)
              /\ Answer(Request("login", username, password, 0),
                        "OK", "Login successful!", username, NewToken)
    /\ UNCHANGED dataVars
    /\ UNCHANGED <<calls, transport, now, users, loggedOut>>

\* mutant: a login that tells an unknown username from a wrong password
GrpcLogin_TellsUnknownUser ==
    /\ transport = "grpc"
    /\ \E username \in Usernames \cup {""}, password \in Passwords \cup {""} :
         IF username = "" \/ password = ""
         THEN /\ Answer(Request("login", username, password, 0),
                        "INVALID_ARGUMENT", "Username and password are required.", "", 0)
              /\ UNCHANGED <<sessions, tokenCount, loginAt>>
         ELSE IF ~HasUser(users, username)
         THEN /\ Answer(Request("login", username, password, 0),
                        "NOT_FOUND", "User not found", "", 0)
              /\ UNCHANGED <<sessions, tokenCount, loginAt>>
         ELSE IF ~Compare(password, UserByName(users, username).password)
         THEN /\ Answer(Request("login", username, password, 0),
                        "UNAUTHENTICATED", "Invalid username or password", "", 0)
              /\ UNCHANGED <<sessions, tokenCount, loginAt>>
         ELSE /\ NewToken <= MaxTokens
              /\ sessions' = PutSession(sessions, NewToken, SessionUser(users, username))
              /\ tokenCount' = NewToken
              /\ loginAt' = PutSession(loginAt, NewToken, now)
              /\ Answer(Request("login", username, password, 0),
                        "OK", "Login successful", username, NewToken)
    /\ UNCHANGED dataVars
    /\ UNCHANGED <<calls, transport, now, users, loggedOut>>

\* sessions.set(sessionToken, {id, username}): no expiry
GrpcLogin ==
    /\ transport = "grpc"
    /\ \E username \in Usernames \cup {""}, password \in Passwords \cup {""} :
         IF username = "" \/ password = ""
         THEN /\ Answer(Request("login", username, password, 0),
                        "INVALID_ARGUMENT", "Username and password are required.", "", 0)
              /\ UNCHANGED <<sessions, tokenCount, loginAt>>
         ELSE IF ~HasUser(users, username)
         THEN /\ Answer(Request("login", username, password, 0),
                        "UNAUTHENTICATED", "Invalid username or password", "", 0)
              /\ UNCHANGED <<sessions, tokenCount, loginAt>>
         ELSE IF ~Compare(password, UserByName(users, username).password)
         THEN /\ Answer(Request("login", username, password, 0),
                        "UNAUTHENTICATED", "Invalid username or password", "", 0)
              /\ UNCHANGED <<sessions, tokenCount, loginAt>>
         ELSE /\ NewToken <= MaxTokens
              /\ sessions' = PutSession(sessions, NewToken, SessionUser(users, username))
              /\ tokenCount' = NewToken
              /\ loginAt' = PutSession(loginAt, NewToken, now)
              /\ Answer(Request("login", username, password, 0),
                        "OK", "Login successful", username, NewToken)
    /\ UNCHANGED dataVars
    /\ UNCHANGED <<calls, transport, now, users, loggedOut>>

\* ------------------------------------------------------------------ logout
\* part_000:404-420 (and :375-401), app.js:191-202, app.js:494-504:
\* checkAuth, then req.session.destroy()
RestLogout ==
    /\ transport \in RestVariants
    /\ \E cookie \in TokenInputs :
         IF ~RestCheckAuth(sessions, cookie)
         THEN /\ Answer(Request("logout", "", "", cookie),
                        "UNAUTHORIZED", "Unauthorized: Please log in.", "", 0)
              /\ UNCHANGED <<sessions, loginAt, loggedOut>>
         ELSE /\ sessions' = DeleteSession(sessions, cookie)
              /\ UNCHANGED loginAt
              /\ loggedOut' = loggedOut \cup {cookie}
              /\ Answer(Request("logout", "", "", cookie),
                        "OK", "Logged out successfully!", "", 0)
    /\ UNCHANGED dataVars
    /\ UNCHANGED <<calls, transport, now, users, tokenCount>>

SoapLogout ==
    /\ transport = "soap"
    /\ \E session_id \in TokenInputs :
         IF session_id = NoToken \/ ~SoapValidateSession(sessions, session_id, now)
         THEN /\ Answer(Request("logout", "", "", session_id),
                        "UNAUTHORIZED", "Invalid or expired session.", "", 0)
              /\ UNCHANGED <<sessions, loginAt, loggedOut>>
         ELSE /\ sessions' = DeleteSession(sessions, session_id)
              /\ loginAt' = DeleteSession(loginAt, session_id)
              /\ loggedOut' = loggedOut \cup {session_id}
              /\ Answer(Request("logout", "", "", session_id),
                        "OK", "Logged out successfully!", "", 0)
    /\ UNCHANGED dataVars
    /\ UNCHANGED <<calls, transport, now, users, tokenCount>>

GqlLogoutUser ==
    /\ transport = "graphql"
    /\ \E session_token \in TokenInputs :
         IF ~GqlValidateSession(sessions, session_token)
         THEN /\ Answer(Request("logout", "", "", session_token),
                        "ERROR", "Invalid session", "", 0)
              /\ UNCHANGED <<sessions, loginAt, loggedOut>>
         ELSE /\ sessions' = DeleteSession(sessions, session_token)
              /\ loginAt' = DeleteSession(loginAt, session_token)
              /\ loggedOut' = loggedOut \cup {session_token}
              /\ Answer(Request("logout", "", "", session_token),
                        "OK", "Logout successful!", "", 0)
    /\ UNCHANGED dataVars
    /\ UNCHANGED <<calls, transport, now, users, tokenCount>>

GrpcLogout ==
    /\ transport = "grpc"
    /\ \E session_token \in TokenInputs :
         IF session_token = NoToken \/ session_token \notin DOMAIN sessions
         THEN /\ Answer(Request("logout", "", "", session_token),
                        "UNAUTHENTICATED", "Invalid session", "", 0)
              /\ UNCHANGED <<sessions, loginAt, loggedOut>>
         ELSE /\ sessions' = DeleteSession(sessions, session_token)
              /\ loginAt' = DeleteSession(loginAt, session_token)
              /\ loggedOut' = loggedOut \cup {session_token}
              /\ Answer(Request("logout", "", "", session_token),
                        "OK", "Successfully logged out", "", 0)
    /\ UNCHANGED dataVars
    /\ UNCHANGED <<calls, transport, now, users, tokenCount>>

\* ----------------------------------------------------------------- profile
RestProfile ==
    /\ transport \in RestVariants
    /\ \E cookie \in TokenInputs :
         IF ~RestCheckAuth(sessions, cookie)
         THEN Answer(Request("profile", "", "", cookie),
                     "UNAUTHORIZED", "Unauthorized: Please log in.", "", 0)
         ELSE Answer(Request("profile", "", "", cookie),
                     "OK", "Current user profile retrieved successfully.",
                     sessions[cookie].user.username, 0)
    /\ UNCHANGED dataVars
    /\ UNCHANGED <<calls, transport, now, users, sessions, tokenCount, loginAt, loggedOut>>

SoapGetProfile ==
    /\ transport = "soap"
    /\ \E session_id \in TokenInputs :
         IF session_id = NoToken \/ ~SoapValidateSession(sessions, session_id, now)
         THEN Answer(Request("profile", "", "", session_id),
                     "UNAUTHORIZED", "Invalid or expired session.", "", 0)
         ELSE Answer(Request("profile", "", "", session_id),
                     "OK", "Current user profile retrieved successfully.",
                     sessions[session_id].user.username, 0)
    /\ UNCHANGED dataVars
    /\ UNCHANGED <<calls, transport, now, users, sessions, tokenCount, loginAt, loggedOut>>

GqlProfile ==
    /\ transport = "graphql"
    /\ \E session_token \in TokenInputs :
         IF ~GqlValidateSession(sessions, session_token)
         THEN Answer(Request("profile", "", "", session_token),
                     "ERROR", "Invalid session", "", 0)
         ELSE Answer(Request("profile", "", "", session_token),
                     "OK", "", sessions[session_token].username, 0)
    /\ UNCHANGED dataVars
    /\ UNCHANGED <<calls, transport, now, users, sessions, tokenCount, loginAt, loggedOut>>

GrpcGetProfile ==
    /\ transport = "grpc"
    /\ \E session_token \in TokenInputs :
         IF ~GrpcValidateSession(sessions, session_token)
         THEN Answer(Request("profile", "", "", session_token),
                     "UNAUTHENTICATED", "Invalid session", "", 0)
         ELSE Answer(Request("profile", "", "", session_token),
                     "OK", "Profile retrieved successfully",
                     sessions[session_token].username, 0)
    /\ UNCHANGED dataVars
    /\ UNCHANGED <<calls, transport, now, users, sessions, tokenCount, loginAt, loggedOut>>

\* ===================================================================
\* Issues, comments, labels, milestones
\* ===================================================================
\* A request field is a string, or Absent when the request leaves it out
\* (undefined in JavaScript); Falsy is the test !v of the handlers.  A
\* color is a sequence of characters, << >> when left out.  The optional
\* issue fields description and assignee are handled like title by every
\* handler and are left out of the rows.
Absent == "(absent)"

Falsy(v) == v = Absent \/ v = ""

IssueStatuses == {"open", "in_progress", "resolved", "closed"}

IssuePriorities == {"low", "medium", "high", "critical"}

MilestoneStatuses == {"open", "closed"}

\* ------------------------------------------------------ request inputs
GoodIssue == [title |-> "Bug", status |-> "closed", priority |-> "high", creator |-> "alice"]

IssueInputs ==
    {GoodIssue,
     [GoodIssue EXCEPT !.title = Absent], [GoodIssue EXCEPT !.title = ""],
     [GoodIssue EXCEPT !.status = Absent], [GoodIssue EXCEPT !.status = "bogus"],
     [GoodIssue EXCEPT !.priority = Absent], [GoodIssue EXCEPT !.priority = "bogus"],
     [GoodIssue EXCEPT !.creator = Absent]}

EmptyPatch == [title |-> Absent, status |-> Absent, priority |-> Absent]

IssuePatches ==
    {EmptyPatch,
     [EmptyPatch EXCEPT !.title = "Fix"],
     [EmptyPatch EXCEPT !.status = "resolved"], [EmptyPatch EXCEPT !.status = "bogus"],
     [EmptyPatch EXCEPT !.priority = "bogus"]}

GoodComment == [content |-> "LGTM", author |-> "alice"]

CommentInputs ==
    {GoodComment, [GoodComment EXCEPT !.content = Absent], [GoodComment EXCEPT !.author = ""]}

Red == <<"#", "f", "f", "0", "0", "0", "0">>

GoodLabel == [name |-> "bug", color |-> Red]

LabelInputs ==
    {GoodLabel, [GoodLabel EXCEPT !.name = Absent], [GoodLabel EXCEPT !.color = << >>],
     [GoodLabel EXCEPT !.color = <<"f", "0", "0">>],
     [GoodLabel EXCEPT !.color = <<"r", "e", "d">>]}

GoodMilestone ==
    [title |-> "v1", description |-> "first", due_date |-> "2025-01-01", status |-> "open"]

MilestoneInputs ==
    {GoodMilestone,
     [GoodMilestone EXCEPT !.title = Absent],
     [GoodMilestone EXCEPT !.description = Absent],
     [GoodMilestone EXCEPT !.due_date = Absent],
     [GoodMilestone EXCEPT !.status = Absent],
     [GoodMilestone EXCEPT !.status = "bogus"]}

IdInputs == 1..MaxRows

DataRequest(op, token, id, body) == [op |-> op, token |-> token, id |-> id, body |-> body]

DataResponse(code, msg, id) == [code |-> code, msg |-> msg, id |-> id]

\* the handler answers and the tables stay as they are
Reject(request, code, msg) ==
    /\ req' = request
    /\ resp' = DataResponse(code, msg, 0)
    /\ UNCHANGED dataVars

\* ------------------------------------------------------------- SQLite
NewId == idCount + 1

PutRow(tbl, id, row) == [x \in (DOMAIN tbl) \cup {id} |-> IF x = id THEN row ELSE tbl[x]]

\* mutant: a DELETE that removes no row
DeleteRow_Keeps(tbl, id) == tbl

\* DELETE FROM <table> WHERE id = ?
DeleteRow(tbl, id) == [x \in (DOMAIN tbl) \ {id} |-> tbl[x]]

\* NOT NULL and CHECK constraints of table issues
IssueRowOk(row) ==
    /\ row.title # Absent
    /\ row.creator # Absent
    /\ row.status \in IssueStatuses
    /\ row.priority \in IssuePriorities

\* CHECK constraint of table milestones
MilestoneRowOk(row) == row.title # Absent /\ row.status \in MilestoneStatuses

HexDigits ==
    {"0", "1", "2", "3", "4", "5", "6", "7", "8", "9",
     "a", "b", "c", "d", "e", "f", "A", "B", "C", "D", "E", "F"}

\* color GLOB '#[0-9A-Fa-f][0-9A-Fa-f]...' of the database that reset-db.js
\* creates; the GraphQL server drops table labels and creates it again
\* without the constraint
LabelRowOk(tr, row) ==
    \/ tr = "graphql"
    \/ /\ Len(row.color) = 7
       /\ row.color[1] = "#"
       /\ \A i \in 2..7 : row.color[i] \in HexDigits

\* INSERT INTO issues
InsertIssue(tbl, id, row) ==
    IF IssueRowOk(row) THEN [err |-> FALSE, tbl |-> PutRow(tbl, id, row)]
    ELSE [err |-> TRUE, tbl |-> tbl]

\* the columns a patch supplies (field !== undefined)
Supplied(patch) == {f \in DOMAIN patch : patch[f] # Absent}

\* UPDATE issues SET <sets> WHERE id = ?  (sets: column -> value)
UpdateIssues(tbl, id, sets) ==
    IF id \notin DOMAIN tbl THEN [err |-> FALSE, changes |-> 0, tbl |-> tbl]
    ELSE LET row == [f \in DOMAIN tbl[id] |->
                        IF f \in DOMAIN sets THEN sets[f] ELSE tbl[id][f]] IN
         IF IssueRowOk(row)
         THEN [err |-> FALSE, changes |-> 1, tbl |-> [tbl EXCEPT ![id] = row]]
         ELSE [err |-> TRUE, changes |-> 0, tbl |-> tbl]

\* the SET clause of a patch, with updated_at = now
SetClause(patch, time) ==
    [f \in Supplied(patch) \cup {"updated_at"} |->
        IF f = "updated_at" THEN time ELSE patch[f]]

IssueRow(body, status, priority, time) ==
    [title |-> body.title, status |-> status, priority |-> priority,
     creator |-> body.creator, created_at |-> time, updated_at |-> time]

\* ---------------------------------------------------------------- REST
\* checkAuth of app.js; the routes of part_000 carry no middleware
RestGuard(cookie) == transport = "restAuth" => RestCheckAuth(sessions, cookie)

RestUnauthorized(request) ==
    Reject(request, "UNAUTHORIZED", "Unauthorized: Please log in.")

RestCreateIssue ==
    /\ transport \in RestVariants
    /\ \E cookie \in TokenInputs, body \in IssueInputs :
         LET request == DataRequest("createIssue", cookie, 0, body)
             ins == InsertIssue(issues, NewId,
                        IssueRow(body, body.status, body.priority, now)) IN
         IF ~RestGuard(cookie) THEN RestUnauthorized(request)
         ELSE IF Falsy(body.title) \/ Falsy(body.status) \/ Falsy(body.priority)
                    \/ Falsy(body.creator)
         THEN Reject(request, "INVALID_INPUT",
                     "Missing required fields for creating an issue.")
         ELSE IF ins.err THEN Reject(request, "DB_ERROR", "CHECK constraint failed")
         ELSE /\ NewId <= MaxRows
              /\ issues' = ins.tbl
              /\ idCount' = NewId
              /\ req' = request
              /\ resp' = DataResponse("OK", "", NewId)
              /\ UNCHANGED <<comments, labels, milestones>>
    /\ UNCHANGED <<calls, transport, now, authVars>>

RestUpdateIssue ==
    /\ transport \in RestVariants
    /\ \E cookie \in TokenInputs, issueId \in IdInputs, body \in IssuePatches :
         LET request == DataRequest("updateIssue", cookie, issueId, body)
             fields == DOMAIN SetClause(body, now)
             upd == UpdateIssues(issues, issueId, SetClause(body, now)) IN
         IF ~RestGuard(cookie) THEN RestUnauthorized(request)
         ELSE IF fields = {}
         THEN Reject(request, "NO_UPDATE_FIELDS", "No fields provided for update.")
         ELSE IF upd.err THEN Reject(request, "DB_ERROR", "CHECK constraint failed")
         ELSE IF upd.changes = 0 THEN Reject(request, "NOT_FOUND", "Issue not found")
         ELSE /\ issues' = upd.tbl
              /\ req' = request
              /\ resp' = DataResponse("OK", "", issueId)
              /\ UNCHANGED <<comments, labels, milestones, idCount>>
    /\ UNCHANGED <<calls, transport, now, authVars>>

RestDeleteIssue ==
    /\ transport \in RestVariants
    /\ \E cookie \in TokenInputs, issueId \in IdInputs :
         LET request == DataRequest("deleteIssue", cookie, issueId, Absent) IN
         IF ~RestGuard(cookie) THEN RestUnauthorized(request)
         ELSE IF issueId \notin DOMAIN issues
         THEN Reject(request, "NOT_FOUND", "Issue not found")
         ELSE /\ issues' = DeleteRow(issues, issueId)
              /\ req' = request
              /\ resp' = DataResponse("OK", "", issueId)
              /\ UNCHANGED <<comments, labels, milestones, idCount>>
    /\ UNCHANGED <<calls, transport, now, authVars>>

RestCreateComment ==
    /\ transport \in RestVariants
    /\ \E cookie \in TokenInputs, issueId \in IdInputs, body \in CommentInputs :
         LET request == DataRequest("createComment", cookie, issueId, body) IN
         IF ~RestGuard(cookie) THEN RestUnauthorized(request)
         ELSE IF Falsy(body.content) \/ Falsy(body.author)
         THEN Reject(request, "INVALID_INPUT", "content and author are required.")
         ELSE IF issueId \notin DOMAIN issues
         THEN Reject(request, "NOT_FOUND", "Cannot add comment: Issue not found")
         ELSE /\ NewId <= MaxRows
              /\ comments' = PutRow(comments, NewId,
                                 [issue_id |-> issueId, content |-> body.content,
                                  author |-> body.author, created_at |-> now])
              /\ idCount' = NewId
              /\ req' = request
              /\ resp' = DataResponse("OK", "", NewId)
              /\ UNCHANGED <<issues, labels, milestones>>
    /\ UNCHANGED <<calls, transport, now, authVars>>

RestCreateLabel ==
    /\ transport \in RestVariants
    /\ \E cookie \in TokenInputs, body \in LabelInputs :
         LET request == DataRequest("createLabel", cookie, 0, body)
             row == [name |-> body.name, color |-> body.color] IN
         IF ~RestGuard(cookie) THEN RestUnauthorized(request)
         ELSE IF Falsy(body.name) \/ body.color = << >>
         THEN Reject(request, "INVALID_INPUT", "name and color are required.")
         ELSE IF ~LabelRowOk(transport, row)
         THEN Reject(request, "DB_ERROR", "CHECK constraint failed")
         ELSE /\ NewId <= MaxRows
              /\ labels' = PutRow(labels, NewId, row)
              /\ idCount' = NewId
              /\ req' = request
              /\ resp' = DataResponse("OK", "", NewId)
              /\ UNCHANGED <<issues, comments, milestones>>
    /\ UNCHANGED <<calls, transport, now, authVars>>

RestCreateMilestone ==
    /\ transport \in RestVariants
    /\ \E cookie \in TokenInputs, body \in MilestoneInputs :
         LET request == DataRequest("createMilestone", cookie, 0, body)
             row == [title |-> body.title, description |-> body.description,
                     due_date |-> body.due_date, status |-> body.status] IN
         IF ~RestGuard(cookie) THEN RestUnauthorized(request)
         ELSE IF Falsy(body.title) \/ Falsy(body.description) \/ Falsy(body.due_date)
                    \/ Falsy(body.status)
         THEN Reject(request, "INVALID_INPUT",
                     "title, due_date, status, and description are required.")
         ELSE IF ~MilestoneRowOk(row)
         THEN Reject(request, "DB_ERROR", "CHECK constraint failed")
         ELSE /\ NewId <= MaxRows
              /\ milestones' = PutRow(milestones, NewId, row)
              /\ idCount' = NewId
              /\ req' = request
              /\ resp' = DataResponse("OK", "", NewId)
              /\ UNCHANGED <<issues, comments, labels>>
    /\ UNCHANGED <<calls, transport, now, authVars>>

\* ---------------------------------------------------------------- SOAP
\* The SOAP data operations read no session id from their arguments.
\* normalizedColor of CreateLabel (also of the GraphQL createLabel)
NormalizeColor(color) ==
    LET withHash == IF Head(color) # "#" THEN <<"#">> \o color ELSE color IN
    IF Len(withHash) = 4
    THEN <<"#", withHash[2], withHash[2], withHash[3], withHash[3],
           withHash[4], withHash[4]>>
    ELSE withHash

\* description || '' and due_date || null of the milestone INSERT
OrEmpty(v) == IF Falsy(v) THEN "" ELSE v

OrNull(v) == IF Falsy(v) THEN Absent ELSE v

SoapCreateIssue ==
    /\ transport = "soap"
    /\ \E body \in IssueInputs :
         LET request == DataRequest("createIssue", NoToken, 0, body)
             ins == InsertIssue(issues, NewId,
                        IssueRow(body, body.status, body.priority, now)) IN
         IF Falsy(body.title) \/ Falsy(body.status) \/ Falsy(body.priority)
               \/ Falsy(body.creator)
         THEN Reject(request, "INVALID_INPUT",
                     "Missing required fields for creating an issue.")
         ELSE IF ins.err THEN Reject(request, "DB_ERROR", "CHECK constraint failed")
         ELSE /\ NewId <= MaxRows
              /\ issues' = ins.tbl
              /\ idCount' = NewId
              /\ req' = request
              /\ resp' = DataResponse("OK", "", NewId)
              /\ UNCHANGED <<comments, labels, milestones>>
    /\ UNCHANGED <<calls, transport, now, authVars>>

SoapUpdateIssue ==
    /\ transport = "soap"
    /\ \E issueId \in IdInputs, body \in IssuePatches :
         LET request == DataRequest("updateIssue", NoToken, issueId, body)
             fields == DOMAIN SetClause(body, now)
             upd == UpdateIssues(issues, issueId, SetClause(body, now)) IN
         IF Cardinality(fields) <= 1
         THEN Reject(request, "NO_UPDATE_FIELDS", "No fields provided for update.")
         ELSE IF upd.err THEN Reject(request, "DB_ERROR", "CHECK constraint failed")
         ELSE IF upd.changes = 0 THEN Reject(request, "NOT_FOUND", "Issue not found")
         ELSE /\ issues' = upd.tbl
              /\ req' = request
              /\ resp' = DataResponse("OK", "", issueId)
              /\ UNCHANGED <<comments, labels, milestones, idCount>>
    /\ UNCHANGED <<calls, transport, now, authVars>>

SoapDeleteIssue ==
    /\ transport = "soap"
    /\ \E issueId \in IdInputs :
         LET request == DataRequest("deleteIssue", NoToken, issueId, Absent) IN
         IF issueId \notin DOMAIN issues
         THEN Reject(request, "NOT_FOUND", "Issue not found")
         ELSE /\ issues' = DeleteRow(issues, issueId)
              /\ req' = request
              /\ resp' = DataResponse("OK", "Issue deleted successfully!", issueId)
              /\ UNCHANGED <<comments, labels, milestones, idCount>>
    /\ UNCHANGED <<calls, transport, now, authVars>>

SoapCreateComment ==
    /\ transport = "soap"
    /\ \E issueId \in IdInputs, body \in CommentInputs :
         LET request == DataRequest("createComment", NoToken, issueId, body) IN
         IF Falsy(body.content) \/ Falsy(body.author)
         THEN Reject(request, "INVALID_INPUT", "content and author are required.")
         ELSE IF issueId \notin DOMAIN issues
         THEN Reject(request, "NOT_FOUND", "Cannot add comment: Issue not found")
         ELSE /\ NewId <= MaxRows
              /\ comments' = PutRow(comments, NewId,
                                 [issue_id |-> issueId, content |-> body.content,
                                  author |-> body.author, created_at |-> now])
              /\ idCount' = NewId
              /\ req' = request
              /\ resp' = DataResponse("OK", "", NewId)
              /\ UNCHANGED <<issues, labels, milestones>>
    /\ UNCHANGED <<calls, transport, now, authVars>>

SoapCreateLabel ==
    /\ transport = "soap"
    /\ \E body \in LabelInputs :
         LET request == DataRequest("createLabel", NoToken, 0, body)
             normalizedColor == NormalizeColor(body.color)
             row == [name |-> body.name, color |-> normalizedColor] IN
         IF Falsy(body.name) \/ body.color = << >>
         THEN Reject(request, "INVALID_INPUT", "name and color are required.")
         ELSE IF Head(normalizedColor) # "#" \/ Len(normalizedColor) # 7
         THEN Reject(request, "INVALID_COLOR", "Color must be in format #RRGGBB")
         ELSE IF ~LabelRowOk(transport, row)
         THEN Reject(request, "DB_ERROR", "CHECK constraint failed")
         ELSE /\ NewId <= MaxRows
              /\ labels' = PutRow(labels, NewId, row)
              /\ idCount' = NewId
              /\ req' = request
              /\ resp' = DataResponse("OK", "", NewId)
              /\ UNCHANGED <<issues, comments, milestones>>
    /\ UNCHANGED <<calls, transport, now, authVars>>

SoapCreateMilestone ==
    /\ transport = "soap"
    /\ \E body \in MilestoneInputs :
         LET request == DataRequest("createMilestone", NoToken, 0, body)
             row == [title |-> body.title, description |-> OrEmpty(body.description),
                     due_date |-> OrNull(body.due_date), status |-> body.status] IN
         IF Falsy(body.title) \/ Falsy(body.status)
         THEN Reject(request, "INVALID_INPUT", "title and status are required.")
         ELSE IF ~MilestoneRowOk(row)
         THEN Reject(request, "DB_ERROR", "CHECK constraint failed")
         ELSE /\ NewId <= MaxRows
              /\ milestones' = PutRow(milestones, NewId, row)
              /\ idCount' = NewId
              /\ req' = request
              /\ resp' = DataResponse("OK", "", NewId)
              /\ UNCHANGED <<issues, comments, labels>>
    /\ UNCHANGED <<calls, transport, now, authVars>>

\* ------------------------------------------------------------- GraphQL
\* The schema file is not part of the sources; README-GraphQL.md gives its
\* enums.  An argument of an enum type is the enum's name of the value, and
\* a name outside the enum fails GraphQL validation before any resolver.
GqlEnumName(v) ==
    CASE v = "open" -> "OPEN" [] v = "in_progress" -> "IN_PROGRESS"
      [] v = "resolved" -> "RESOLVED" [] v = "closed" -> "CLOSED"
      [] v = "low" -> "LOW" [] v = "medium" -> "MEDIUM"
      [] v = "high" -> "HIGH" [] v = "critical" -> "CRITICAL"
      [] v = "bogus" -> "BOGUS"
      [] OTHER -> v

\* String.prototype.toLowerCase, on the request inputs
ToLowerCase(v) == IF v = "BOGUS" THEN "bogus" ELSE v

GqlIssueStatusEnum == {"OPEN", "IN_PROGRESS", "RESOLVED", "CLOSED"}

GqlIssuePriorityEnum == {"LOW", "MEDIUM", "HIGH", "CRITICAL"}

GqlMilestoneStatusEnum == {"OPEN", "CLOSED"}

\* statusMap[x] || x.toLowerCase(), on the names validation lets through
graphQLToDbStatus(graphqlStatus) ==
    CASE graphqlStatus = "OPEN" -> "open" [] graphqlStatus = "IN_PROGRESS" -> "in_progress"
      [] graphqlStatus = "RESOLVED" -> "resolved" [] graphqlStatus = "CLOSED" -> "closed"
      [] OTHER -> ToLowerCase(graphqlStatus)

graphQLToDbPriority(graphqlPriority) ==
    CASE graphqlPriority = "LOW" -> "low" [] graphqlPriority = "MEDIUM" -> "medium"
      [] graphqlPriority = "HIGH" -> "high" [] graphqlPriority = "CRITICAL" -> "critical"
      [] OTHER -> ToLowerCase(graphqlPriority)

graphQLToDbMilestoneStatus(graphqlStatus) ==
    CASE graphqlStatus = "OPEN" -> "open" [] graphqlStatus = "CLOSED" -> "closed"
      [] OTHER -> ToLowerCase(graphqlStatus)

GqlInvalidEnum(v, enum) == v # Absent /\ GqlEnumName(v) \notin enum

GqlValidationFailed(request) ==
    Reject(request, "GRAPHQL_VALIDATION_FAILED", "Value does not exist in enum.")

GqlInvalidSession(request) == Reject(request, "ERROR", "Invalid session")

GqlCreateIssue ==
    /\ transport = "graphql"
    /\ \E session_token \in TokenInputs, input \in IssueInputs :
         LET request == DataRequest("createIssue", session_token, 0, input)
             status == GqlEnumName(input.status)
             priority == GqlEnumName(input.priority)
             ins == InsertIssue(issues, NewId,
                        IssueRow(input, graphQLToDbStatus(status),
                                 graphQLToDbPriority(priority), now)) IN
         IF GqlInvalidEnum(input.status, GqlIssueStatusEnum)
               \/ GqlInvalidEnum(input.priority, GqlIssuePriorityEnum)
         THEN GqlValidationFailed(request)
         ELSE IF ~GqlValidateSession(sessions, session_token)
         THEN GqlInvalidSession(request)
         ELSE IF Falsy(input.title) \/ Falsy(status) \/ Falsy(priority)
                    \/ Falsy(input.creator)
         THEN Reject(request, "ERROR", "Missing required fields for creating an issue.")
         ELSE IF ins.err THEN Reject(request, "ERROR", "CHECK constraint failed")
         ELSE /\ NewId <= MaxRows
              /\ issues' = ins.tbl
              /\ idCount' = NewId
              /\ req' = request
              /\ resp' = DataResponse("OK", "", NewId)
              /\ UNCHANGED <<comments, labels, milestones>>
    /\ UNCHANGED <<calls, transport, now, authVars>>

\* the resolver's view of a patch: enum names mapped to the stored strings
GqlPatch(input) ==
    [title |-> input.title,
     status |-> IF input.status = Absent THEN Absent
                ELSE graphQLToDbStatus(GqlEnumName(input.status)),
     priority |-> IF input.priority = Absent THEN Absent
                  ELSE graphQLToDbPriority(GqlEnumName(input.priority))]

GqlUpdateIssue ==
    /\ transport = "graphql"
    /\ \E session_token \in TokenInputs, id \in IdInputs, input \in IssuePatches :
         LET request == DataRequest("updateIssue", session_token, id, input)
             updates == Supplied(GqlPatch(input))
             upd == UpdateIssues(issues, id, SetClause(GqlPatch(input), now)) IN
         IF GqlInvalidEnum(input.status, GqlIssueStatusEnum)
               \/ GqlInvalidEnum(input.priority, GqlIssuePriorityEnum)
         THEN GqlValidationFailed(request)
         ELSE IF ~GqlValidateSession(sessions, session_token)
         THEN GqlInvalidSession(request)
         ELSE IF updates = {} THEN Reject(request, "ERROR", "No fields to update")
         ELSE IF upd.err THEN Reject(request, "ERROR", "CHECK constraint failed")
         ELSE IF upd.changes = 0 THEN Reject(request, "ERROR", "Issue not found")
         ELSE /\ issues' = upd.tbl
              /\ req' = request
              /\ resp' = DataResponse("OK", "", id)
              /\ UNCHANGED <<comments, labels, milestones, idCount>>
    /\ UNCHANGED <<calls, transport, now, authVars>>

GqlDeleteIssue ==
    /\ transport = "graphql"
    /\ \E session_token \in TokenInputs, id \in IdInputs :
         LET request == DataRequest("deleteIssue", session_token, id, Absent) IN
         IF ~GqlValidateSession(sessions, session_token)
         THEN GqlInvalidSession(request)
         ELSE IF id \notin DOMAIN issues
         THEN Reject(request, "ERROR", "Issue not found")
         ELSE /\ issues' = DeleteRow(issues, id)
              /\ req' = request
              /\ resp' = DataResponse("OK", "", id)
              /\ UNCHANGED <<comments, labels, milestones, idCount>>
    /\ UNCHANGED <<calls, transport, now, authVars>>

\* createComment inserts without looking the issue up
GqlCreateComment ==
    /\ transport = "graphql"
    /\ \E session_token \in TokenInputs, issue_id \in IdInputs, input \in CommentInputs :
         LET request == DataRequest("createComment", session_token, issue_id, input) IN
         IF ~GqlValidateSession(sessions, session_token)
         THEN GqlInvalidSession(request)
         ELSE IF Falsy(input.content) \/ Falsy(input.author)
         THEN Reject(request, "ERROR", "content and author are required.")
         ELSE /\ NewId <= MaxRows
              /\ comments' = PutRow(comments, NewId,
                                 [issue_id |-> issue_id, content |-> input.content,
                                  author |-> input.author, created_at |-> now])
              /\ idCount' = NewId
              /\ req' = request
              /\ resp' = DataResponse("OK", "", NewId)
              /\ UNCHANGED <<issues, labels, milestones>>
    /\ UNCHANGED <<calls, transport, now, authVars>>

GqlCreateLabel ==
    /\ transport = "graphql"
    /\ \E session_token \in TokenInputs, input \in LabelInputs :
         LET request == DataRequest("createLabel", session_token, 0, input)
             row == [name |-> input.name, color |-> NormalizeColor(input.color)] IN
         IF ~GqlValidateSession(sessions, session_token)
         THEN GqlInvalidSession(request)
         ELSE IF Falsy(input.name) \/ input.color = << >>
         THEN Reject(request, "ERROR", "name and color are required.")
         ELSE IF ~LabelRowOk(transport, row)
         THEN Reject(request, "ERROR", "CHECK constraint failed")
         ELSE /\ NewId <= MaxRows
              /\ labels' = PutRow(labels, NewId, row)
              /\ idCount' = NewId
              /\ req' = request
              /\ resp' = DataResponse("OK", "", NewId)
              /\ UNCHANGED <<issues, comments, milestones>>
    /\ UNCHANGED <<calls, transport, now, authVars>>

GqlCreateMilestone ==
    /\ transport = "graphql"
    /\ \E session_token \in TokenInputs, input \in MilestoneInputs :
         LET request == DataRequest("createMilestone", session_token, 0, input)
             status == GqlEnumName(input.status)
             row == [title |-> input.title, description |-> OrEmpty(input.description),
                     due_date |-> OrNull(input.due_date),
                     status |-> graphQLToDbMilestoneStatus(status)] IN
         IF GqlInvalidEnum(input.status, GqlMilestoneStatusEnum)
         THEN GqlValidationFailed(request)
         ELSE IF ~GqlValidateSession(sessions, session_token)
         THEN GqlInvalidSession(request)
         ELSE IF Falsy(input.title) \/ Falsy(status)
         THEN Reject(request, "ERROR", "title and status are required.")
         ELSE IF ~MilestoneRowOk(row)
         THEN Reject(request, "ERROR", "CHECK constraint failed")
         ELSE /\ NewId <= MaxRows
              /\ milestones' = PutRow(milestones, NewId, row)
              /\ idCount' = NewId
              /\ req' = request
              /\ resp' = DataResponse("OK", "", NewId)
              /\ UNCHANGED <<issues, comments, labels>>
    /\ UNCHANGED <<calls, transport, now, authVars>>

\* ---------------------------------------------------------------- gRPC
\* mantis.proto is not part of the sources; README-gRPC.md gives the enum
\* numbers and names.  The client sends an enum as its number (0 when it
\* leaves the field out, a number outside the enum for any other value).
\* The loader (enums: String, defaults: true) hands the handler the name of
\* a known number; what it hands over for a field left out or an unknown
\* number depends on the proto file and the protobufjs version, so the
\* decoders below give the set of values the handler may see.
IssueStatusWire(v) ==
    CASE v = Absent -> 0 [] v = "open" -> 1 [] v = "in_progress" -> 2
      [] v = "resolved" -> 3 [] v = "closed" -> 4 [] OTHER -> 9

IssuePriorityWire(v) ==
    CASE v = Absent -> 0 [] v = "low" -> 1 [] v = "medium" -> 2
      [] v = "high" -> 3 [] v = "critical" -> 4 [] OTHER -> 9

MilestoneStatusWire(v) ==
    CASE v = Absent -> 0 [] v = "open" -> 1 [] v = "closed" -> 2 [] OTHER -> 9

IssueStatusNames ==
    <<"ISSUE_STATUS_OPEN", "ISSUE_STATUS_IN_PROGRESS", "ISSUE_STATUS_RESOLVED",
      "ISSUE_STATUS_CLOSED">>

IssuePriorityNames ==
    <<"ISSUE_PRIORITY_LOW", "ISSUE_PRIORITY_MEDIUM", "ISSUE_PRIORITY_HIGH",
      "ISSUE_PRIORITY_CRITICAL">>

MilestoneStatusNames == <<"MILESTONE_STATUS_OPEN", "MILESTONE_STATUS_CLOSED">>

\* the values call.request may hold for an enum field sent as number n
ProtoDecodeEnum(n, names, unspecified) ==
    IF n = 0 THEN {unspecified, Absent}
    ELSE IF n \in 1..Len(names) THEN {names[n]}
    ELSE {ToString(n), Absent}

\* the values call.request may hold for a string field
ProtoDecodeString(v) == IF v = Absent THEN {"", Absent} ELSE {v}

\* statusMap[enumValue] || 'open', the map keyed by the numbers 1..4
mapIssueStatusFromEnum(enumValue) ==
    CASE enumValue = "1" -> "open" [] enumValue = "2" -> "in_progress"
      [] enumValue = "3" -> "resolved" [] enumValue = "4" -> "closed"
      [] OTHER -> "open"

mapIssuePriorityFromEnum(enumValue) ==
    CASE enumValue = "1" -> "low" [] enumValue = "2" -> "medium"
      [] enumValue = "3" -> "high" [] enumValue = "4" -> "critical"
      [] OTHER -> "low"

mapMilestoneStatusFromEnum(enumValue) ==
    CASE enumValue = "1" -> "open" [] enumValue = "2" -> "closed"
      [] OTHER -> "open"

GrpcInvalidSession(request) == Reject(request, "UNAUTHENTICATED", "Invalid session")

GrpcCreateIssue ==
    /\ transport = "grpc"
    /\ \E session_token \in TokenInputs, body \in IssueInputs :
       \E status \in ProtoDecodeEnum(IssueStatusWire(body.status), IssueStatusNames,
                                     "ISSUE_STATUS_UNSPECIFIED"),
          priority \in ProtoDecodeEnum(IssuePriorityWire(body.priority), IssuePriorityNames,
                                       "ISSUE_PRIORITY_UNSPECIFIED") :
         LET request == DataRequest("createIssue", session_token, 0, body)
             ins == InsertIssue(issues, NewId,
                        IssueRow(body, mapIssueStatusFromEnum(status),
                                 mapIssuePriorityFromEnum(priority), now)) IN
         IF ~GrpcValidateSession(sessions, session_token)
         THEN GrpcInvalidSession(request)
         ELSE IF Falsy(body.title) \/ Falsy(status) \/ Falsy(priority)
                    \/ Falsy(body.creator)
         THEN Reject(request, "INVALID_ARGUMENT",
                     "Title, status, priority, and creator are required")
         ELSE IF ins.err THEN Reject(request, "INTERNAL", "CHECK constraint failed")
         ELSE /\ NewId <= MaxRows
              /\ issues' = ins.tbl
              /\ idCount' = NewId
              /\ req' = request
              /\ resp' = DataResponse("OK", "", NewId)
              /\ UNCHANGED <<comments, labels, milestones>>
    /\ UNCHANGED <<calls, transport, now, authVars>>

\* the columns UpdateIssue sets for the decoded fields of call.request
GrpcPatch(title, status, priority) ==
    [title |-> title,
     status |-> IF status # Absent /\ status # "0"
                THEN mapIssueStatusFromEnum(status) ELSE Absent,
     priority |-> IF priority # Absent /\ priority # "0"
                  THEN mapIssuePriorityFromEnum(priority) ELSE Absent]

GrpcUpdateIssue ==
    /\ transport = "grpc"
    /\ \E session_token \in TokenInputs, issue_id \in IdInputs, body \in IssuePatches :
       \E title \in ProtoDecodeString(body.title),
          status \in ProtoDecodeEnum(IssueStatusWire(body.status), IssueStatusNames,
                                     "ISSUE_STATUS_UNSPECIFIED"),
          priority \in ProtoDecodeEnum(IssuePriorityWire(body.priority), IssuePriorityNames,
                                       "ISSUE_PRIORITY_UNSPECIFIED") :
         LET request == DataRequest("updateIssue", session_token, issue_id, body)
             patch == GrpcPatch(title, status, priority)
             updates == Supplied(patch)
             upd == UpdateIssues(issues, issue_id, SetClause(patch, now)) IN
         IF ~GrpcValidateSession(sessions, session_token)
         THEN GrpcInvalidSession(request)
         ELSE IF updates = {}
         THEN Reject(request, "INVALID_ARGUMENT", "No fields to update")
         ELSE IF upd.err THEN Reject(request, "INTERNAL", "CHECK constraint failed")
         ELSE IF upd.changes = 0 THEN Reject(request, "NOT_FOUND", "Issue not found")
         ELSE /\ issues' = upd.tbl
              /\ req' = request
              /\ resp' = DataResponse("OK", "", issue_id)
              /\ UNCHANGED <<comments, labels, milestones, idCount>>
    /\ UNCHANGED <<calls, transport, now, authVars>>

GrpcDeleteIssue ==
    /\ transport = "grpc"
    /\ \E session_token \in TokenInputs, issue_id \in IdInputs :
         LET request == DataRequest("deleteIssue", session_token, issue_id, Absent) IN
         IF ~GrpcValidateSession(sessions, session_token)
         THEN GrpcInvalidSession(request)
         ELSE IF issue_id \notin DOMAIN issues
         THEN Reject(request, "NOT_FOUND", "Issue not found")
         ELSE /\ issues' = DeleteRow(issues, issue_id)
              /\ req' = request
              /\ resp' = DataResponse("OK", "", issue_id)
              /\ UNCHANGED <<comments, labels, milestones, idCount>>
    /\ UNCHANGED <<calls, transport, now, authVars>>

GrpcCreateComment ==
    /\ transport = "grpc"
    /\ \E session_token \in TokenInputs, issue_id \in IdInputs, body \in CommentInputs :
         LET request == DataRequest("createComment", session_token, issue_id, body) IN
         IF ~GrpcValidateSession(sessions, session_token)
         THEN GrpcInvalidSession(request)
         ELSE IF Falsy(body.content) \/ Falsy(body.author)
         THEN Reject(request, "INVALID_ARGUMENT",
                     "Issue ID, content, and author are required")
         ELSE IF issue_id \notin DOMAIN issues
         THEN Reject(request, "NOT_FOUND", "Issue not found")
         ELSE /\ NewId <= MaxRows
              /\ comments' = PutRow(comments, NewId,
                                 [issue_id |-> issue_id, content |-> body.content,
                                  author |-> body.author, created_at |-> now])
              /\ idCount' = NewId
              /\ req' = request
              /\ resp' = DataResponse("OK", "", NewId)
              /\ UNCHANGED <<issues, labels, milestones>>
    /\ UNCHANGED <<calls, transport, now, authVars>>

\* CreateLabel stores the color as sent
GrpcCreateLabel ==
    /\ transport = "grpc"
    /\ \E session_token \in TokenInputs, body \in LabelInputs :
         LET request == DataRequest("createLabel", session_token, 0, body)
             row == [name |-> body.name, color |-> body.color] IN
         IF ~GrpcValidateSession(sessions, session_token)
         THEN GrpcInvalidSession(request)
         ELSE IF Falsy(body.name) \/ body.color = << >>
         THEN Reject(request, "INVALID_ARGUMENT", "Name and color are required")
         ELSE IF ~LabelRowOk(transport, row)
         THEN Reject(request, "INTERNAL", "CHECK constraint failed")
         ELSE /\ NewId <= MaxRows
              /\ labels' = PutRow(labels, NewId, row)
              /\ idCount' = NewId
              /\ req' = request
              /\ resp' = DataResponse("OK", "", NewId)
              /\ UNCHANGED <<issues, comments, milestones>>
    /\ UNCHANGED <<calls, transport, now, authVars>>

GrpcCreateMilestone ==
    /\ transport = "grpc"
    /\ \E session_token \in TokenInputs, body \in MilestoneInputs :
       \E status \in ProtoDecodeEnum(MilestoneStatusWire(body.status),
                                     MilestoneStatusNames, "MILESTONE_STATUS_UNSPECIFIED") :
         LET request == DataRequest("createMilestone", session_token, 0, body)
             row == [title |-> body.title, description |-> OrEmpty(body.description),
                     due_date |-> body.due_date,
                     status |-> mapMilestoneStatusFromEnum(status)] IN
         IF ~GrpcValidateSession(sessions, session_token)
         THEN GrpcInvalidSession(request)
         ELSE IF Falsy(body.title) \/ Falsy(body.due_date) \/ Falsy(status)
         THEN Reject(request, "INVALID_ARGUMENT",
                     "Title, due_date, and status are required")
         ELSE IF ~MilestoneRowOk(row)
         THEN Reject(request, "INTERNAL", "CHECK constraint failed")
         ELSE /\ NewId <= MaxRows
              /\ milestones' = PutRow(milestones, NewId, row)
              /\ idCount' = NewId
              /\ req' = request
              /\ resp' = DataResponse("OK", "", NewId)
              /\ UNCHANGED <<issues, comments, labels>>
    /\ UNCHANGED <<calls, transport, now, authVars>>

\* ------------------------------------------------------------- reads
\* The handlers that read one issue or the comments of an issue test no
\* session.  Their answer carries the row, or the ids of the rows, found.
RowResponse(code, msg, id, row) == [code |-> code, msg |-> msg, id |-> id, row |-> row]

NoRow == [title |-> Absent]

\* statusMap[dbStatus] || dbStatus, priorityMap[dbPriority] || dbPriority
dbToGraphQLStatus(dbStatus) ==
    CASE dbStatus = "open" -> "OPEN" [] dbStatus = "in_progress" -> "IN_PROGRESS"
      [] dbStatus = "resolved" -> "RESOLVED" [] dbStatus = "closed" -> "CLOSED"
      [] OTHER -> dbStatus

dbToGraphQLPriority(dbPriority) ==
    CASE dbPriority = "low" -> "LOW" [] dbPriority = "medium" -> "MEDIUM"
      [] dbPriority = "high" -> "HIGH" [] dbPriority = "critical" -> "CRITICAL"
      [] OTHER -> dbPriority

\* statusMap[status] || 0, priorityMap[priority] || 0
mapIssueStatusToEnum(status) ==
    CASE status = "open" -> 1 [] status = "in_progress" -> 2
      [] status = "resolved" -> 3 [] status = "closed" -> 4 [] OTHER -> 0

mapIssuePriorityToEnum(priority) ==
    CASE priority = "low" -> 1 [] priority = "medium" -> 2
      [] priority = "high" -> 3 [] priority = "critical" -> 4 [] OTHER -> 0

\* SELECT * FROM issues WHERE id = ?
SelectIssue(tbl, id) == IF id \in DOMAIN tbl THEN tbl[id] ELSE NoRow

\* mutant: a read of the comments joined with the issue they belong to
SelectComments_OfLiveIssue(tbl, issueId) ==
    {c \in DOMAIN tbl : tbl[c].issue_id = issueId /\ issueId \in DOMAIN issues}

\* SELECT * FROM comments WHERE issue_id = ?  (the ids of the rows)
SelectComments(tbl, issueId) == {c \in DOMAIN tbl : tbl[c].issue_id = issueId}

ReadAnswer(request, code, msg, id, row) ==
    /\ req' = request
    /\ resp' = RowResponse(code, msg, id, row)
    /\ UNCHANGED dataVars
    /\ UNCHANGED <<calls, transport, now, authVars>>

RestGetIssue ==
    /\ transport \in RestVariants
    /\ \E issueId \in IdInputs :
         LET request == DataRequest("getIssue", NoToken, issueId, Absent)
             row == SelectIssue(issues, issueId) IN
         IF row = NoRow
         THEN ReadAnswer(request, "NOT_FOUND", "Issue not found", 0, NoRow)
         ELSE ReadAnswer(request, "OK", "", issueId, row)

SoapGetIssue ==
    /\ transport = "soap"
    /\ \E issueId \in IdInputs :
         LET request == DataRequest("getIssue", NoToken, issueId, Absent)
             row == SelectIssue(issues, issueId) IN
         IF row = NoRow
         THEN ReadAnswer(request, "NOT_FOUND", "Issue not found", 0, NoRow)
         ELSE ReadAnswer(request, "OK", "", issueId, row)

GqlIssue ==
    /\ transport = "graphql"
    /\ \E id \in IdInputs :
         LET request == DataRequest("getIssue", NoToken, id, Absent)
             row == SelectIssue(issues, id) IN
         IF row = NoRow
         THEN ReadAnswer(request, "ERROR", "Issue not found", 0, NoRow)
         ELSE ReadAnswer(request, "OK", "", id,
                         [row EXCEPT !.status = dbToGraphQLStatus(row.status),
                                     !.priority = dbToGraphQLPriority(row.priority)])

GrpcGetIssue ==
    /\ transport = "grpc"
    /\ \E issue_id \in IdInputs :
         LET request == DataRequest("getIssue", NoToken, issue_id, Absent)
             row == SelectIssue(issues, issue_id) IN
         IF row = NoRow
         THEN ReadAnswer(request, "NOT_FOUND", "Issue not found", 0, NoRow)
         ELSE ReadAnswer(request, "OK", "", issue_id,
                         [row EXCEPT !.status = mapIssueStatusToEnum(row.status),
                                     !.priority = mapIssuePriorityToEnum(row.priority)])

RestGetComments ==
    /\ transport \in RestVariants
    /\ \E issueId \in IdInputs :
         ReadAnswer(DataRequest("getComments", NoToken, issueId, Absent),
                    "OK", "", issueId, SelectComments(comments, issueId))

SoapGetComments ==
    /\ transport = "soap"
    /\ \E issueId \in IdInputs :
         ReadAnswer(DataRequest("getComments", NoToken, issueId, Absent),
                    "OK", "", issueId, SelectComments(comments, issueId))

GqlComments ==
    /\ transport = "graphql"
    /\ \E issue_id \in IdInputs :
         ReadAnswer(DataRequest("getComments", NoToken, issue_id, Absent),
                    "OK", "", issue_id, SelectComments(comments, issue_id))

GrpcGetComments ==
    /\ transport = "grpc"
    /\ \E issue_id \in IdInputs :
         ReadAnswer(DataRequest("getComments", NoToken, issue_id, Absent),
                    "OK", "", issue_id, SelectComments(comments, issue_id))

\* ---------------------------------------------------------- list issues
\* page and per_page of a request are <<n>> for the integer n, or << >> when
\* left out; the handlers read no session.  A SELECT without ORDER BY
\* returns the rows in the order of insertion, which is the order of the ids
\* here.
DefaultPerPage == 20

MaxPerPage == 100

ListRequest(status, page, per_page) ==
    DataRequest("getIssues", NoToken, 0,
                [status |-> status, page |-> page, per_page |-> per_page])

ListResponse(code, data, total, page, per_page) ==
    [code |-> code, data |-> data, total |-> total, page |-> page, per_page |-> per_page]

OrDefault(v, default) == IF v = << >> THEN default ELSE v[1]

\* x || d on numbers: 0 is falsy
OrIfZero(x, d) == IF x = 0 THEN d ELSE x

Min(a, b) == IF a < b THEN a ELSE b

Max(a, b) == IF a > b THEN a ELSE b

\* the ids of the rows WHERE status = ? (no condition when the handler
\* pushes none), in the order the SELECT returns them
WhereStatus(tbl, status) ==
    LET n == Cardinality(DOMAIN tbl)
        ids == [i \in 1..n |-> i] IN
    SelectSeq(ids, LAMBDA i : status = Absent \/ tbl[i].status = status)

\* LIMIT l OFFSET o of SQLite: a negative limit is no limit, a negative
\* offset is offset 0
LimitOffset(rows, limit, offset) ==
    LET skip == Min(Max(offset, 0), Len(rows))
        left == Len(rows) - skip
        take == IF limit < 0 THEN left ELSE Min(limit, left) IN
    SubSeq(rows, skip + 1, skip + take)

\* SELECT COUNT(*) as total FROM issues WHERE status = ?
CountIssues(tbl, status) == Len(WhereStatus(tbl, status))

ListAnswer(request, data, total, page, per_page) ==
    /\ req' = request
    /\ resp' = ListResponse("OK", data, total, page, per_page)
    /\ UNCHANGED dataVars
    /\ UNCHANGED <<calls, transport, now, authVars>>

\* the largest page and the row counts of the listed table
MaxPage == 2

MaxIssues == 101

StatusFilters == {Absent, "closed"}

PageInputs == {<< >>} \cup {<<n>> : n \in -1..MaxPage}

PerPageInputs ==
    {<< >>} \cup {<<n>> : n \in (-1..2) \cup {MaxPerPage, MaxPerPage + 50}}

\* What a negative number becomes in a gRPC request depends on the field
\* type in mantis.proto; the gRPC requests carry the other inputs.
NonNegative(inputs) == {v \in inputs : v = << >> \/ v[1] >= 0}

RestGetIssues ==
    /\ transport \in RestVariants
    /\ \E status \in StatusFilters, page \in PageInputs, per_page \in PerPageInputs :
         LET pageNum == OrIfZero(OrDefault(page, 1), 1)
             limitNum == Min(OrDefault(per_page, DefaultPerPage), MaxPerPage)
             offset == (pageNum - 1) * limitNum
             where == IF Falsy(status) THEN Absent ELSE status
             rows == LimitOffset(WhereStatus(issues, where), limitNum, offset) IN
         ListAnswer(ListRequest(status, page, per_page), rows, Len(rows), pageNum, limitNum)

SoapGetIssues ==
    /\ transport = "soap"
    /\ \E status \in StatusFilters, page \in PageInputs, per_page \in PerPageInputs :
         LET pageNum == OrIfZero(OrDefault(page, 1), 1)
             limitNum == Min(OrDefault(per_page, DefaultPerPage), MaxPerPage)
             offset == (pageNum - 1) * limitNum
             where == IF Falsy(status) THEN Absent ELSE status
             rows == LimitOffset(WhereStatus(issues, where), limitNum, offset) IN
         ListAnswer(ListRequest(status, page, per_page), rows, Len(rows), pageNum, limitNum)

GqlIssues ==
    /\ transport = "graphql"
    /\ \E status \in StatusFilters, page \in PageInputs, per_page \in PerPageInputs :
         LET pageNum == Max(1, OrDefault(page, 1))
             limitNum == Min(Max(1, OrDefault(per_page, DefaultPerPage)), MaxPerPage)
             offset == (pageNum - 1) * limitNum
             where == IF Falsy(status) THEN Absent
                      ELSE graphQLToDbStatus(GqlEnumName(status))
             rows == LimitOffset(WhereStatus(issues, where), limitNum, offset) IN
         ListAnswer(ListRequest(status, page, per_page), rows,
                    CountIssues(issues, where), pageNum, limitNum)

GrpcGetIssues ==
    /\ transport = "grpc"
    /\ \E filter \in StatusFilters, pageIn \in NonNegative(PageInputs),
          per_page \in NonNegative(PerPageInputs) :
       \E status \in ProtoDecodeEnum(IssueStatusWire(filter), IssueStatusNames,
                                     "ISSUE_STATUS_UNSPECIFIED") :
         LET page == OrIfZero(OrDefault(pageIn, 0), 1)
             perPage == Min(OrIfZero(OrDefault(per_page, 0), DefaultPerPage), MaxPerPage)
             offset == (page - 1) * perPage
             where == IF ~Falsy(status) /\ status # "0"
                      THEN mapIssueStatusFromEnum(status) ELSE Absent
             rows == LimitOffset(WhereStatus(issues, where), perPage, offset) IN
         ListAnswer(ListRequest(filter, pageIn, per_page), rows,
                    CountIssues(issues, where), page, perPage)

\* -------------------------------------------------------------------- time
Tick ==
    /\ now < MaxTime
    /\ now' = now + 1
    /\ UNCHANGED dataVars
    /\ UNCHANGED <<calls, transport, users, sessions, tokenCount, loginAt, loggedOut, req, resp>>

Next ==
    \/ Tick
    \/ RestRegister \/ SoapRegisterUser \/ GqlRegisterUser \/ GrpcRegister
    \/ RestLogin \/ SoapLoginUser \/ GqlLoginUser \/ GrpcLogin
    \/ RestLogout \/ SoapLogout \/ GqlLogoutUser \/ GrpcLogout
    \/ RestProfile \/ SoapGetProfile \/ GqlProfile \/ GrpcGetProfile

Spec == Init /\ [][Next]_vars

\* ----------------------------------------------------- data specification
\* The state after alice has registered and logged in once (token 1); the
\* front end then serves the requests on issues, comments, labels and
\* milestones, and logouts.
Alice == InsertUser({}, "alice", Hash("pw123")).tbl

\* the entry each front end's login stores for alice at time 0
AliceSession ==
    CASE transport \in RestVariants -> [user |-> SessionUser(Alice, "alice")]
      [] transport = "soap" ->
             [user |-> SessionUser(Alice, "alice"), expires |-> SessionTtl]
      [] transport = "graphql" -> UserByName(Alice, "alice")
      [] transport = "grpc" -> SessionUser(Alice, "alice")

InitData ==
    /\ transport \in Transports
    /\ now = 0
    /\ users = Alice
    /\ sessions = PutSession(NoSessions, 1, AliceSession)
    /\ tokenCount = 1
    /\ loginAt = IF transport \in TokenTransports
                 THEN PutSession(NoSessions, 1, 0) ELSE [x \in {} |-> 0]
    /\ loggedOut = {}
    /\ issues = NoRows
    /\ comments = NoRows
    /\ labels = NoRows
    /\ milestones = NoRows
    /\ idCount = 0
    /\ req = NoRequest
    /\ resp = NoResponse
    /\ calls = NoCalls

NextData ==
    \/ Tick
    \/ RestLogout \/ SoapLogout \/ GqlLogoutUser \/ GrpcLogout
    \/ RestCreateIssue \/ SoapCreateIssue \/ GqlCreateIssue \/ GrpcCreateIssue
    \/ RestUpdateIssue \/ SoapUpdateIssue \/ GqlUpdateIssue \/ GrpcUpdateIssue
    \/ RestDeleteIssue \/ SoapDeleteIssue \/ GqlDeleteIssue \/ GrpcDeleteIssue
    \/ RestCreateComment \/ SoapCreateComment \/ GqlCreateComment \/ GrpcCreateComment
    \/ RestCreateLabel \/ SoapCreateLabel \/ GqlCreateLabel \/ GrpcCreateLabel
    \/ RestCreateMilestone \/ SoapCreateMilestone \/ GqlCreateMilestone
    \/ GrpcCreateMilestone
    \/ RestGetIssue \/ SoapGetIssue \/ GqlIssue \/ GrpcGetIssue
    \/ RestGetComments \/ SoapGetComments \/ GqlComments \/ GrpcGetComments

SpecData == InitData /\ [][NextData]_vars

\* ----------------------------------------------------- list specification
\* A database that holds no issue, a few, or more than a full page of them
\* (every second one closed); the front end serves list requests.
ListedIssue(i) ==
    [title |-> "Bug", status |-> IF i % 2 = 0 THEN "closed" ELSE "open",
     priority |-> "high", creator |-> "alice", created_at |-> 0, updated_at |-> 0]

InitList ==
    /\ transport \in Transports
    /\ now = 0
    /\ users = Alice
    /\ sessions = PutSession(NoSessions, 1, AliceSession)
    /\ tokenCount = 1
    /\ loginAt = IF transport \in TokenTransports
                 THEN PutSession(NoSessions, 1, 0) ELSE [x \in {} |-> 0]
    /\ loggedOut = {}
    /\ \E n \in {0, 3, MaxIssues} :
          /\ issues = [i \in 1..n |-> ListedIssue(i)]
          /\ idCount = n
    /\ comments = NoRows
    /\ labels = NoRows
    /\ milestones = NoRows
    /\ req = NoRequest
    /\ resp = NoResponse
    /\ calls = NoCalls

NextList == RestGetIssues \/ SoapGetIssues \/ GqlIssues \/ GrpcGetIssues

SpecList == InitList /\ [][NextList]_vars

\* --------------------------------------------------- thread specification
\* The state after alice has also created issue 1 and commented on it
\* (comment 2); the front end then serves the same requests as in SpecData.
InitThread ==
    /\ transport \in Transports
    /\ now = 0
    /\ users = Alice
    /\ sessions = PutSession(NoSessions, 1, AliceSession)
    /\ tokenCount = 1
    /\ loginAt = IF transport \in TokenTransports
                 THEN PutSession(NoSessions, 1, 0) ELSE [x \in {} |-> 0]
    /\ loggedOut = {}
    /\ issues = PutRow(NoRows, 1, IssueRow(GoodIssue, "closed", "high", 0))
    /\ comments = PutRow(NoRows, 2, [issue_id |-> 1, content |-> GoodComment.content,
                                     author |-> GoodComment.author, created_at |-> 0])
    /\ labels = NoRows
    /\ milestones = NoRows
    /\ idCount = 2
    /\ req = NoRequest
    /\ resp = NoResponse
    /\ calls = NoCalls

SpecThread == InitThread /\ [][NextData]_vars

\* ===================================================================
\* Properties
\* ===================================================================
\* the logical error kinds in each front end's native form
IsUserExists(tr, r) ==
    CASE tr \in RestVariants \cup {"soap"} -> r.code = "USER_EXISTS"
      [] tr = "graphql" -> r.code = "ERROR" /\ r.msg = "Username already taken."
      [] tr = "grpc" -> r.code = "ALREADY_EXISTS"

IsUnauthorized(tr, r) ==
    CASE tr \in RestVariants \cup {"soap"} -> r.code = "UNAUTHORIZED"
      [] tr = "graphql" -> r.code = "ERROR" /\ r.msg = "Invalid session"
      [] tr = "grpc" -> r.code = "UNAUTHENTICATED"

InvalidCredentials(tr) ==
    CASE tr \in RestVariants \cup {"soap"} ->
             Response("INVALID_CREDENTIALS", "Invalid username or password.", "", 0)
      [] tr = "graphql" -> Response("ERROR", "Invalid credentials.", "", 0)
      [] tr = "grpc" -> Response("UNAUTHENTICATED", "Invalid username or password", "", 0)

\* the step handled a request of this operation (Tick is the only step
\* that handles none)
Handled(op) == req'.op = op /\ now' = now

UniqueUsernames(tbl) == \A r1, r2 \in tbl : r1.username = r2.username => r1 = r2

C3_TokenExpiresAfterOneHour ==
    \A t \in DOMAIN loginAt :
        (transport \in TokenTransports /\ now >= loginAt[t] + SessionTtl)
            => ~Validate(transport, sessions, t, now)

LoginSucceeded == Handled("login") /\ resp'.code = "OK"

LogoutSucceeded == Handled("logout") /\ resp'.code = "OK"

ReusesCookieSession ==
    transport \in RestVariants /\ RestCheckAuth(sessions, req'.token)

C7_LogoutIdempotent ==
    [][ Handled("logout")
        => /\ (~Validate(transport, sessions, req'.token, now) => sessions' = sessions)
           /\ (req'.token \in loggedOut => sessions' = sessions)
           /\ ~Validate(transport, sessions', req'.token, now') ]_vars

\* a second logout of a token already logged out, answered unauthorized
C7_Witness ==
    /\ req.op = "logout"
    /\ req.token \in loggedOut
    /\ IsUnauthorized(transport, resp)
    /\ sessions # NoSessions

Mutations ==
    {"createIssue", "updateIssue", "deleteIssue", "createComment", "createLabel",
     "createMilestone"}

Creates == {"createIssue", "createComment", "createLabel", "createMilestone"}

IsInvalidInput(tr, r) ==
    CASE tr \in RestVariants \cup {"soap"} -> r.code = "INVALID_INPUT"
      [] tr = "graphql" ->
             /\ r.code = "ERROR"
             /\ r.msg \in {"Missing required fields for creating an issue.",
                           "content and author are required.",
                           "name and color are required.",
                           "title and status are required."}
      [] tr = "grpc" -> r.code = "INVALID_ARGUMENT"

IsNoUpdateFields(tr, r) ==
    CASE tr \in RestVariants \cup {"soap"} -> r.code = "NO_UPDATE_FIELDS"
      [] tr = "graphql" -> r.code = "ERROR" /\ r.msg = "No fields to update"
      [] tr = "grpc" -> r.code = "INVALID_ARGUMENT" /\ r.msg = "No fields to update"

\* C5: in every front end a request that creates, updates or deletes an
\* issue, comment, label or milestone and carries no currently valid session
\* is answered unauthorized (a GraphQL document that fails validation is
\* answered so before any resolver runs) and leaves the four tables
\* unchanged.
C5_MutationsRequireSession ==
    [][ (req'.op \in Mutations /\ now' = now
            /\ ~Validate(transport, sessions, req'.token, now))
        => /\ \/ IsUnauthorized(transport, resp')
              \/ resp'.code = "GRAPHQL_VALIDATION_FAILED"
           /\ UNCHANGED <<issues, comments, labels, milestones>> ]_vars

\* the request supplies a value for the field that is outside the enumeration
SuppliesOther(v, enum) == v # Absent /\ v \notin enum

\* C8: every issue row has its status and its priority in the enumerations,
\* and a create or update of an issue that supplies any other status or
\* priority is answered with an error and changes no issue row.
C8_StatusAndPriorityEnumerated ==
    [][ /\ \A id \in DOMAIN issues' :
              /\ issues'[id].status \in IssueStatuses
              /\ issues'[id].priority \in IssuePriorities
        /\ (req'.op \in {"createIssue", "updateIssue"} /\ now' = now
               /\ \/ SuppliesOther(req'.body.status, IssueStatuses)
                  \/ SuppliesOther(req'.body.priority, IssuePriorities))
           => resp'.code # "OK" /\ issues' = issues ]_vars

\* the fields a create must carry
RequiredFields(op) ==
    CASE op = "createIssue" -> {"title", "status", "priority", "creator"}
      [] op = "createComment" -> {"content", "author"}
      [] op = "createLabel" -> {"name", "color"}
      [] op = "createMilestone" -> {"title", "description", "due_date", "status"}

Missing(body, f) == IF f = "color" THEN body[f] = << >> ELSE Falsy(body[f])

\* C9: in every front end a create whose request lacks a required field (or
\* carries it empty), when it is not answered unauthorized, is answered
\* INVALID_INPUT and inserts no row; the required fields are the same in
\* every front end (for a milestone: title, description, due_date, status).
C9_MissingRequiredFieldRejected ==
    [][ (req'.op \in Creates /\ now' = now
            /\ \E f \in RequiredFields(req'.op) : Missing(req'.body, f)
            /\ ~IsUnauthorized(transport, resp'))
        => /\ IsInvalidInput(transport, resp')
           /\ UNCHANGED <<issues, comments, labels, milestones>> ]_vars

\* C10: in every front end an update of an existing issue that supplies none
\* of the mutable fields, when it is not answered unauthorized, is answered
\* NO_UPDATE_FIELDS and leaves the issue row, updated_at included, unchanged.
C10_EmptyUpdateRejected ==
    [][ (Handled("updateIssue") /\ Supplied(req'.body) = {}
            /\ req'.id \in DOMAIN issues
            /\ ~IsUnauthorized(transport, resp'))
        => /\ IsNoUpdateFields(transport, resp')
           /\ issues' = issues ]_vars

UpdateSucceeded == Handled("updateIssue") /\ resp'.code = "OK"

\* the columns of an issue row a request can never set
FixedColumns == {"creator", "created_at"}

\* C11: a successful update of an issue leaves every mutable field the
\* request does not supply at its previous value, never changes id, creator
\* or created_at, sets updated_at to the time of the update, and modifies no
\* other row of any table.
C11_UpdateChangesOnlySuppliedFields ==
    [][ UpdateSucceeded
        => /\ req'.id \in DOMAIN issues
           /\ DOMAIN issues' = DOMAIN issues
           /\ \A f \in (DOMAIN req'.body) \ Supplied(req'.body) :
                 issues'[req'.id][f] = issues[req'.id][f]
           /\ \A f \in FixedColumns : issues'[req'.id][f] = issues[req'.id][f]
           /\ issues'[req'.id].updated_at = now
           /\ \A other \in (DOMAIN issues) \ {req'.id} : issues'[other] = issues[other]
           /\ UNCHANGED <<comments, labels, milestones, users>> ]_vars

IsNotFound(tr, r) ==
    CASE tr \in RestVariants \cup {"soap"} -> r.code = "NOT_FOUND"
      [] tr = "graphql" -> r.code = "ERROR" /\ r.msg = "Issue not found"
      [] tr = "grpc" -> r.code = "NOT_FOUND"

DeleteSucceeded == Handled("deleteIssue") /\ resp'.code = "OK"

\* C12: a delete of an issue id that matches no row, when it is not answered
\* unauthorized, is answered NOT_FOUND and leaves the tables unchanged; a
\* successful delete removes the row of its id, so that the same delete
\* repeated is answered NOT_FOUND.
C12_DeleteMissingNotFound ==
    [][ /\ (Handled("deleteIssue") /\ req'.id \notin DOMAIN issues
               /\ ~IsUnauthorized(transport, resp'))
           => /\ IsNotFound(transport, resp')
              /\ UNCHANGED <<issues, comments, labels, milestones>>
        /\ DeleteSucceeded
           => /\ req'.id \in DOMAIN issues
              /\ req'.id \notin DOMAIN issues'
        /\ idCount' >= idCount
        /\ \A id \in DOMAIN issues' : id \in DOMAIN issues \/ id > idCount ]_vars

\* the second delete of an issue that was created and deleted: the one id
\* handed out so far is in no table any more
C12_Witness ==
    /\ req.op = "deleteIssue"
    /\ IsNotFound(transport, resp)
    /\ req.id <= idCount
    /\ idCount = 1
    /\ issues = NoRows /\ comments = NoRows /\ labels = NoRows /\ milestones = NoRows

\* an issue row as the front end returns it
IssueView(tr, row) ==
    CASE tr = "graphql" -> [row EXCEPT !.status = dbToGraphQLStatus(row.status),
                                       !.priority = dbToGraphQLPriority(row.priority)]
      [] tr = "grpc" -> [row EXCEPT !.status = mapIssueStatusToEnum(row.status),
                                    !.priority = mapIssuePriorityToEnum(row.priority)]
      [] OTHER -> row

\* the value of field f as the front end's request carries it
Sent(tr, f, v) ==
    CASE tr = "graphql" /\ f \in {"status", "priority"} -> GqlEnumName(v)
      [] tr = "grpc" /\ f = "status" -> IssueStatusWire(v)
      [] tr = "grpc" /\ f = "priority" -> IssuePriorityWire(v)
      [] OTHER -> v

CreateIssueSucceeded == Handled("createIssue") /\ resp'.code = "OK"

\* one step keeps the issues table in line with the requests served
ReadsBackLastWrite ==
    /\ Handled("getIssue")
       => IF req'.id \in DOMAIN issues
          THEN resp'.code = "OK" /\ resp'.row = IssueView(transport, issues[req'.id])
          ELSE IsNotFound(transport, resp')
    /\ CreateIssueSucceeded
       => /\ resp'.id > idCount
          /\ DOMAIN issues' = (DOMAIN issues) \cup {resp'.id}
          /\ \A id \in DOMAIN issues : issues'[id] = issues[id]
          /\ \A f \in {"title", "status", "priority", "creator"} :
                IssueView(transport, issues'[resp'.id])[f] = Sent(transport, f, req'.body[f])
    /\ UpdateSucceeded
       => /\ DOMAIN issues' = DOMAIN issues
          /\ \A f \in Supplied(req'.body) :
                IssueView(transport, issues'[req'.id])[f] = Sent(transport, f, req'.body[f])
    /\ DeleteSucceeded => issues' = DeleteRow(issues, req'.id)
    /\ ~(CreateIssueSucceeded \/ UpdateSucceeded \/ DeleteSucceeded)
       => issues' = issues

\* C13: a get of an issue id answers with a row exactly when a create
\* returned that id and no delete of it succeeded since, and NOT_FOUND
\* otherwise; the row it answers carries the field values of the last
\* successful create or update of that id.  Step by step: a get answers the
\* stored row in the front end's form; a successful create adds one row under
\* a fresh id, a successful update changes the row of its id, and after
\* either the row reads back with the values the request sent; a successful
\* delete removes the row of its id; no other step changes the issues table.
C13_GetReturnsLastWrite == [][ReadsBackLastWrite]_vars

Listed == req.op = "getIssues"

\* the page a list request asks for: 1 when it sends none, 0 or a negative one
AskedPage == Max(1, OrDefault(req.body.page, 1))

\* the rows that match the filter the request sends
Matching == WhereStatus(issues, req.body.status)

\* C14: whatever integer per_page a list request sends, the per_page the
\* answer reports and applies lies in 1..100 and the answer holds at most 100
\* issues; per_page = 150 is applied as 100.
C14_PerPageClamped ==
    Listed
    => /\ resp.per_page \in 1..MaxPerPage
       /\ Len(resp.data) <= MaxPerPage
       /\ OrDefault(req.body.per_page, DefaultPerPage) > MaxPerPage
             => resp.per_page = MaxPerPage

\* C15: a list request with page 0 or a negative page is answered as page 1
\* with offset 0; with page >= 1 the answer reports that page and starts at
\* offset (page - 1) times the per_page applied.
C15_PageAtLeastOne ==
    Listed
    => /\ resp.page = AskedPage
       /\ resp.data = LimitOffset(Matching, resp.per_page,
                                  (AskedPage - 1) * resp.per_page)

\* C16: in both REST servers and SOAP the total of a list answer is the
\* number of rows in the page returned; in GraphQL and gRPC it is the number
\* of issue rows that match the filter sent, and so never less than the
\* number of rows in the page.
C16_TotalPageLengthOrCount ==
    Listed
    => IF transport \in RestVariants \cup {"soap"}
       THEN resp.total = Len(resp.data)
       ELSE resp.total = Len(Matching) /\ resp.total >= Len(resp.data)

\* C17: in every front end a create of a comment with content and author
\* against an issue id that matches no issue row, when it is not answered
\* unauthorized, is answered NOT_FOUND and leaves the comments table
\* unchanged.
C17_CommentOnMissingIssueNotFound ==
    [][ (Handled("createComment") /\ req'.id \notin DOMAIN issues
            /\ ~Falsy(req'.body.content) /\ ~Falsy(req'.body.author)
            /\ ~IsUnauthorized(transport, resp'))
        => /\ IsNotFound(transport, resp')
           /\ comments' = comments ]_vars

Digits(color) == IF color # << >> /\ Head(color) = "#" THEN Tail(color) ELSE color

\* 3 or 6 hexadecimal digits, with or without a leading '#'
IsHexColor(color) ==
    /\ Len(Digits(color)) \in {3, 6}
    /\ \A i \in 1..Len(Digits(color)) : Digits(color)[i] \in HexDigits

\* '#' and six digits, a 3-digit shorthand expanded by doubling each digit
SixDigitForm(color) ==
    LET d == Digits(color) IN
    IF Len(d) = 3 THEN <<"#", d[1], d[1], d[2], d[2], d[3], d[3]>> ELSE <<"#">> \o d

\* the INVALID_COLOR kind (only the SOAP server has such an answer)
IsInvalidColor(tr, r) ==
    CASE tr = "graphql" -> r.code = "ERROR" /\ r.msg = "Color must be in format #RRGGBB"
      [] OTHER -> r.code = "INVALID_COLOR"

\* C19: in every front end a create of a label with a name and a color, when
\* it is not answered unauthorized, stores the color as '#' and six digits
\* (a 3-digit shorthand expanded) when the color is 3 or 6 hexadecimal digits
\* with or without a leading '#', and otherwise is answered INVALID_COLOR and
\* inserts no row; every stored label color has the form #RRGGBB.
C19_LabelColorNormalized ==
    [][ /\ (Handled("createLabel") /\ ~Falsy(req'.body.name) /\ req'.body.color # << >>
               /\ ~IsUnauthorized(transport, resp'))
           => IF IsHexColor(req'.body.color)
              THEN /\ resp'.code = "OK"
                   /\ resp'.id \in DOMAIN labels'
                   /\ labels'[resp'.id].color = SixDigitForm(req'.body.color)
              ELSE IsInvalidColor(transport, resp') /\ labels' = labels
        /\ \A id \in DOMAIN labels' :
              /\ IsHexColor(labels'[id].color)
              /\ labels'[id].color = SixDigitForm(labels'[id].color) ]_vars

\* the logical kind of an answer, from its form in the front end
Kind(tr, r) ==
    CASE r.code = "OK" -> "OK"
      [] tr \in RestVariants \cup {"soap"} -> r.code
      [] tr = "graphql" ->
             CASE r.code = "GRAPHQL_VALIDATION_FAILED" -> "INVALID_INPUT"
               [] r.msg = "Invalid session" -> "UNAUTHORIZED"
               [] r.msg = "Issue not found" -> "NOT_FOUND"
               [] r.msg = "No fields to update" -> "NO_UPDATE_FIELDS"
               [] r.msg = "CHECK constraint failed" -> "DB_ERROR"
               [] OTHER -> "INVALID_INPUT"
      [] tr = "grpc" ->
             CASE r.code = "UNAUTHENTICATED" -> "UNAUTHORIZED"
               [] r.code = "NOT_FOUND" -> "NOT_FOUND"
               [] r.code = "INTERNAL" -> "DB_ERROR"
               [] r.msg = "No fields to update" -> "NO_UPDATE_FIELDS"
               [] OTHER -> "INVALID_INPUT"

Outcome(kind, i, c, l, m) ==
    [kind |-> kind, issues |-> i, comments |-> c, labels |-> l, milestones |-> m]

Refused(kind) == Outcome(kind, issues, comments, labels, milestones)

\* what the REST server makes of a request of an authenticated caller on the
\* database as it is: the kind of its answer and the tables it leaves
RestOutcome(op, id, body, time) ==
    CASE op = "createIssue" ->
           IF \E f \in {"title", "status", "priority", "creator"} : Falsy(body[f])
           THEN Refused("INVALID_INPUT")
           ELSE IF ~IssueRowOk(IssueRow(body, body.status, body.priority, time))
           THEN Refused("DB_ERROR")
           ELSE Outcome("OK", PutRow(issues, NewId,
                                     IssueRow(body, body.status, body.priority, time)),
                        comments, labels, milestones)
      [] op = "updateIssue" ->
           LET upd == UpdateIssues(issues, id, SetClause(body, time)) IN
           IF upd.err THEN Refused("DB_ERROR")
           ELSE IF upd.changes = 0 THEN Refused("NOT_FOUND")
           ELSE Outcome("OK", upd.tbl, comments, labels, milestones)
      [] op = "deleteIssue" ->
           IF id \notin DOMAIN issues THEN Refused("NOT_FOUND")
           ELSE Outcome("OK", DeleteRow(issues, id), comments, labels, milestones)
      [] op = "createComment" ->
           IF Falsy(body.content) \/ Falsy(body.author) THEN Refused("INVALID_INPUT")
           ELSE IF id \notin DOMAIN issues THEN Refused("NOT_FOUND")
           ELSE Outcome("OK", issues,
                        PutRow(comments, NewId,
                               [issue_id |-> id, content |-> body.content,
                                author |-> body.author, created_at |-> time]),
                        labels, milestones)
      [] op = "createLabel" ->
           IF Falsy(body.name) \/ body.color = << >> THEN Refused("INVALID_INPUT")
           ELSE IF ~LabelRowOk("rest", [name |-> body.name, color |-> body.color])
           THEN Refused("DB_ERROR")
           ELSE Outcome("OK", issues, comments,
                        PutRow(labels, NewId, [name |-> body.name, color |-> body.color]),
                        milestones)
      [] op = "createMilestone" ->
           IF \E f \in {"title", "description", "due_date", "status"} : Falsy(body[f])
           THEN Refused("INVALID_INPUT")
           ELSE IF ~MilestoneRowOk(body) THEN Refused("DB_ERROR")
           ELSE Outcome("OK", issues, comments, labels, PutRow(milestones, NewId, body))

\* C20: the front ends are equivalent on the data operations: from the same
\* database, the same request of an authenticated caller (create, update,
\* delete of an issue, create of a comment, label or milestone) is accepted
\* or refused with the same logical kind, and leaves the same tables, in
\* SOAP, GraphQL and gRPC as in REST.
C20_TransportsEquivalent ==
    [][ (req'.op \in Mutations /\ now' = now /\ Kind(transport, resp') # "UNAUTHORIZED")
        => LET o == RestOutcome(req'.op, req'.id, req'.body, now) IN
           /\ Kind(transport, resp') = o.kind
           /\ issues' = o.issues
           /\ comments' = o.comments
           /\ labels' = o.labels
           /\ milestones' = o.milestones ]_vars

\* ------------------------------------------------- C21: gRPC enum mappings
\* the stored strings of the enum numbers, in README-gRPC.md's order
StoredIssueStatus == <<"open", "in_progress", "resolved", "closed">>

StoredIssuePriority == <<"low", "medium", "high", "critical">>

StoredMilestoneStatus == <<"open", "closed">>

CreateMilestoneSucceeded == Handled("createMilestone") /\ resp'.code = "OK"

\* one gRPC write stores the string of each enum number it carries
GrpcStoresEnumString ==
    transport = "grpc" =>
      /\ (CreateIssueSucceeded \/ UpdateSucceeded) =>
           LET id == IF req'.op = "createIssue" THEN resp'.id ELSE req'.id
               s == IssueStatusWire(req'.body.status)
               p == IssuePriorityWire(req'.body.priority) IN
           /\ s \in 1..4 => /\ issues'[id].status = StoredIssueStatus[s]
                            /\ mapIssueStatusToEnum(issues'[id].status) = s
           /\ p \in 1..4 => /\ issues'[id].priority = StoredIssuePriority[p]
                            /\ mapIssuePriorityToEnum(issues'[id].priority) = p
      /\ CreateMilestoneSucceeded =>
           LET s == MilestoneStatusWire(req'.body.status) IN
           s \in 1..2 => milestones'[resp'.id].status = StoredMilestoneStatus[s]

\* C21: the gRPC enum mappings are a bijection with the stored strings: an
\* issue created or updated through gRPC with status enum 1..4 and priority
\* enum 1..4 is stored as open/in_progress/resolved/closed and
\* low/medium/high/critical, a milestone with status 1..2 as open/closed, and
\* reading the issue back returns the enum value that was written.
C21_GrpcEnumBijection == [][GrpcStoresEnumString]_vars

\* ===================================================================
\* Interleaved callbacks
\* ===================================================================
\* A handler that runs several statements hands each one to the database (or
\* to bcrypt) with a callback; between two of its callbacks the callbacks of
\* other calls run.  calls[c] is the call of caller c: the operation, the
\* callback that runs next (pc), what the request carried, what the handler
\* holds in its closure (tmp) and the response (out) once it is sent.
MaxCalls == 2

Callers == 1..MaxCalls

Call(op, pc, token, id, body, tmp, out) ==
    [op |-> op, pc |-> pc, token |-> token, id |-> id, body |-> body,
     tmp |-> tmp, out |-> out]

\* a response: its code and message, and the row in its body (NoRow: none)
Out(code, msg) == [code |-> code, msg |-> msg, row |-> NoRow]

OutRow(code, row) == [code |-> code, msg |-> "", row |-> row]

NoOut == Out("", "")

Idle == Call("none", "idle", NoToken, 0, << >>, << >>, NoOut)

\* the call of caller c moves on; nothing is sent yet
Goto(c, call) ==
    /\ calls' = [calls EXCEPT ![c] = call]
    /\ UNCHANGED <<transport, now, req, resp>>

\* the call of caller c sends its response
Done(c, code, msg) ==
    Goto(c, [calls[c] EXCEPT !.pc = "done", !.out = Out(code, msg)])

\* the call of caller c sends a response that carries a row
DoneRow(c, row) ==
    Goto(c, [calls[c] EXCEPT !.pc = "done", !.out = OutRow("OK", row)])

\* a callback throws: nothing catches it and the process ends
Crash(c) == Goto(c, [calls[c] EXCEPT !.pc = "crashed"])

Up == \A c \in DOMAIN calls : calls[c].pc # "crashed"

At(c, op, pc) == Up /\ calls[c].op = op /\ calls[c].pc = pc

\* ------------------------------------------------------- gRPC Register
\* Register: the handler tests the fields and issues the SELECT
GrpcRegisterCall(c) ==
    /\ transport = "grpc"
    /\ calls[c] = Idle
    /\ \E username \in Usernames \cup {""}, password \in RegisterPasswords \cup {""} :
         LET call == Call("register", "select", NoToken, 0,
                          [username |-> username, password |-> password],
                          << >>, NoOut) IN
         IF username = "" \/ password = ""
         THEN Goto(c, [call EXCEPT !.pc = "done",
                         !.out = Out("INVALID_ARGUMENT",
                                     "Username and password are required.")])
         ELSE Goto(c, call)
    /\ UNCHANGED <<authVars, dataVars>>

\* the callback of SELECT id FROM users WHERE username = ?
GrpcRegisterSelect(c) ==
    /\ transport = "grpc"
    /\ At(c, "register", "select")
    /\ IF HasUser(users, calls[c].body.username)
       THEN Done(c, "ALREADY_EXISTS", "Username already taken")
       ELSE Goto(c, [calls[c] EXCEPT !.pc = "hash"])
    /\ UNCHANGED <<authVars, dataVars>>

\* the callback of bcrypt.hash
GrpcRegisterHash(c) ==
    /\ transport = "grpc"
    /\ At(c, "register", "hash")
    /\ Goto(c, [calls[c] EXCEPT !.pc = "insert",
                                !.tmp = <<Hash(calls[c].body.password)>>])
    /\ UNCHANGED <<authVars, dataVars>>

\* the callback of INSERT INTO users
GrpcRegisterInsert(c) ==
    /\ transport = "grpc"
    /\ At(c, "register", "insert")
    /\ LET ins == InsertUser(users, calls[c].body.username, calls[c].tmp[1]) IN
       IF ~ins.ok
       THEN /\ Done(c, "INTERNAL", "UNIQUE constraint failed: users.username")
            /\ UNCHANGED users
       ELSE /\ users' = ins.tbl
            /\ Done(c, "OK", "User registered successfully")
    /\ UNCHANGED <<sessions, tokenCount, loginAt, loggedOut>>
    /\ UNCHANGED dataVars

\* The gRPC server with an empty users table and MaxCalls clients, each of
\* which sends one Register.
InitRegister ==
    /\ transport = "grpc"
    /\ now = 0
    /\ users = {}
    /\ sessions = NoSessions
    /\ tokenCount = 0
    /\ loginAt = [x \in {} |-> 0]
    /\ loggedOut = {}
    /\ issues = NoRows
    /\ comments = NoRows
    /\ labels = NoRows
    /\ milestones = NoRows
    /\ idCount = 0
    /\ req = NoRequest
    /\ resp = NoResponse
    /\ calls = [c \in Callers |-> Idle]

NextRegister ==
    \E c \in Callers :
        \/ GrpcRegisterCall(c)
        \/ GrpcRegisterSelect(c)
        \/ GrpcRegisterHash(c)
        \/ GrpcRegisterInsert(c)

SpecRegister == InitRegister /\ [][NextRegister]_vars

\* the calls that registered the same username have all answered
AllAnswered(op) == \A c \in Callers : calls[c].op = op /\ calls[c].pc = "done"

Succeeded(c) == calls[c].pc = "done" /\ calls[c].out.code = "OK"

\* C22: in gRPC Register, which checks for an existing username, then hashes,
\* then inserts as three separate asynchronous steps, every interleaving of
\* concurrent Register calls for the same new username ends with exactly one
\* success and the others failing with ALREADY_EXISTS, never with INTERNAL.
C22_ConcurrentRegisterOneSuccess ==
    \A a, b \in Callers :
        (/\ a # b
         /\ calls[a].op = "register" /\ calls[b].op = "register"
         /\ calls[a].pc = "done" /\ calls[b].pc = "done"
         /\ calls[a].body = calls[b].body
         /\ calls[a].body.username # "" /\ calls[a].body.password # "")
        => /\ Succeeded(a) # Succeeded(b)
           /\ ~Succeeded(a) => calls[a].out.code = "ALREADY_EXISTS"
           /\ ~Succeeded(b) => calls[b].out.code = "ALREADY_EXISTS"

\* ------------------------------------------- issues and comments, by step
\* The REST servers (part_000 and app.js run the same statements) and the
\* SOAP server write an issue and read it back; all of them, and the gRPC
\* server, delete an issue with one statement and test the issue of a
\* comment before they insert it.
RaceTransports == {"rest", "restAuth", "soap", "grpc"}

RaceTokens == {NoToken, 1}

RaceIssueInputs == {GoodIssue, [GoodIssue EXCEPT !.title = Absent]}

RaceIssuePatches == {EmptyPatch, [EmptyPatch EXCEPT !.title = "Fix"]}

RaceCommentInputs == {GoodComment, [GoodComment EXCEPT !.content = Absent]}

\* checkAuth of app.js, validateSession of the gRPC services
RaceGuard(token) ==
    CASE transport = "restAuth" -> RestCheckAuth(sessions, token)
      [] transport = "grpc" -> GrpcValidateSession(sessions, token)
      [] OTHER -> TRUE

Unauthorized(c, call) ==
    IF transport = "grpc"
    THEN Goto(c, [call EXCEPT !.pc = "done",
                              !.out = Out("UNAUTHENTICATED", "Invalid session")])
    ELSE Goto(c, [call EXCEPT !.pc = "done",
                              !.out = Out("UNAUTHORIZED", "Unauthorized: Please log in.")])

Refuse(c, call, code, msg) ==
    Goto(c, [call EXCEPT !.pc = "done", !.out = Out(code, msg)])

\* the callback of the SELECT that reads the written row back: res.json(row)
\* in REST, a response built from row.id, row.title, ... in SOAP
ReadBack(c, row) ==
    IF transport = "soap" /\ row = NoRow THEN Crash(c) ELSE DoneRow(c, row)

\* POST /issues, CreateIssue: the field test, uuidv4(), the INSERT issued
CreateIssueCall(c) ==
    /\ transport \in RestVariants \cup {"soap"}
    /\ Up /\ calls[c] = Idle
    /\ \E token \in RaceTokens, body \in RaceIssueInputs :
         LET call == Call("createIssue", "insert", token, NewId, body, << >>, NoOut) IN
         IF ~RaceGuard(token) THEN Unauthorized(c, call) /\ UNCHANGED idCount
         ELSE IF Falsy(body.title) \/ Falsy(body.status) \/ Falsy(body.priority)
                    \/ Falsy(body.creator)
         THEN /\ Refuse(c, call, "INVALID_INPUT",
                        "Missing required fields for creating an issue.")
              /\ UNCHANGED idCount
         ELSE Goto(c, call) /\ idCount' = NewId
    /\ UNCHANGED <<authVars, issues, comments, labels, milestones>>

\* the callback of the INSERT
CreateIssueInsert(c) ==
    /\ At(c, "createIssue", "insert")
    /\ LET body == calls[c].body
           ins == InsertIssue(issues, calls[c].id,
                      IssueRow(body, body.status, body.priority, now)) IN
       IF ins.err
       THEN Done(c, "DB_ERROR", "CHECK constraint failed") /\ UNCHANGED issues
       ELSE Goto(c, [calls[c] EXCEPT !.pc = "select"]) /\ issues' = ins.tbl
    /\ UNCHANGED <<authVars, comments, labels, milestones, idCount>>

CreateIssueReadBack(c) ==
    /\ At(c, "createIssue", "select")
    /\ ReadBack(c, SelectIssue(issues, calls[c].id))
    /\ UNCHANGED <<authVars, dataVars>>

\* PATCH /issues/:issueId, UpdateIssue: the SET clause, the UPDATE issued
UpdateIssueCall(c) ==
    /\ transport \in RestVariants \cup {"soap"}
    /\ Up /\ calls[c] = Idle
    /\ \E token \in RaceTokens, issueId \in IdInputs, body \in RaceIssuePatches :
         LET call == Call("updateIssue", "update", token, issueId, body, << >>, NoOut)
             fields == DOMAIN SetClause(body, now) IN
         IF ~RaceGuard(token) THEN Unauthorized(c, call)
         ELSE IF Cardinality(fields) <= (IF transport = "soap" THEN 1 ELSE 0)
         THEN Refuse(c, call, "NO_UPDATE_FIELDS", "No fields provided for update.")
         ELSE Goto(c, call)
    /\ UNCHANGED <<authVars, dataVars>>

\* the callback of the UPDATE
UpdateIssueRun(c) ==
    /\ At(c, "updateIssue", "update")
    /\ LET upd == UpdateIssues(issues, calls[c].id, SetClause(calls[c].body, now)) IN
       IF upd.err
       THEN Done(c, "DB_ERROR", "CHECK constraint failed") /\ UNCHANGED issues
       ELSE IF upd.changes = 0
       THEN Done(c, "NOT_FOUND", "Issue not found") /\ UNCHANGED issues
       ELSE Goto(c, [calls[c] EXCEPT !.pc = "select"]) /\ issues' = upd.tbl
    /\ UNCHANGED <<authVars, comments, labels, milestones, idCount>>

UpdateIssueReadBack(c) ==
    /\ At(c, "updateIssue", "select")
    /\ ReadBack(c, SelectIssue(issues, calls[c].id))
    /\ UNCHANGED <<authVars, dataVars>>

\* DELETE /issues/:issueId, DeleteIssue: the DELETE issued
DeleteIssueCall(c) ==
    /\ transport \in RaceTransports
    /\ Up /\ calls[c] = Idle
    /\ \E token \in RaceTokens, issueId \in IdInputs :
         LET call == Call("deleteIssue", "delete", token, issueId, << >>, << >>, NoOut) IN
         IF ~RaceGuard(token) THEN Unauthorized(c, call) ELSE Goto(c, call)
    /\ UNCHANGED <<authVars, dataVars>>

\* the callback of the DELETE
DeleteIssueRun(c) ==
    /\ At(c, "deleteIssue", "delete")
    /\ IF calls[c].id \notin DOMAIN issues
       THEN Done(c, "NOT_FOUND", "Issue not found") /\ UNCHANGED issues
       ELSE Done(c, "OK", "") /\ issues' = DeleteRow(issues, calls[c].id)
    /\ UNCHANGED <<authVars, comments, labels, milestones, idCount>>

\* POST /issues/:issueId/comments, CreateComment: the field test, the SELECT
\* of the issue issued
CreateCommentCall(c) ==
    /\ transport \in RaceTransports
    /\ Up /\ calls[c] = Idle
    /\ \E token \in RaceTokens, issueId \in IdInputs, body \in RaceCommentInputs :
         LET call == Call("createComment", "check", token, issueId, body, << >>, NoOut) IN
         IF ~RaceGuard(token) THEN Unauthorized(c, call)
         ELSE IF Falsy(body.content) \/ Falsy(body.author)
         THEN IF transport = "grpc"
              THEN Refuse(c, call, "INVALID_ARGUMENT",
                          "Issue ID, content, and author are required")
              ELSE Refuse(c, call, "INVALID_INPUT", "content and author are required.")
         ELSE Goto(c, call)
    /\ UNCHANGED <<authVars, dataVars>>

\* the callback of SELECT id FROM issues WHERE id = ?: uuidv4(), the INSERT
\* issued
CreateCommentCheck(c) ==
    /\ At(c, "createComment", "check")
    /\ IF calls[c].id \notin DOMAIN issues
       THEN /\ IF transport = "grpc"
               THEN Done(c, "NOT_FOUND", "Issue not found")
               ELSE Done(c, "NOT_FOUND", "Cannot add comment: Issue not found")
            /\ UNCHANGED idCount
       ELSE /\ Goto(c, [calls[c] EXCEPT !.pc = "insert", !.tmp = <<NewId>>])
            /\ idCount' = NewId
    /\ UNCHANGED <<authVars, issues, comments, labels, milestones>>

\* the callback of the INSERT; the gRPC server answers from the request
CreateCommentInsert(c) ==
    /\ At(c, "createComment", "insert")
    /\ LET row == [issue_id |-> calls[c].id, content |-> calls[c].body.content,
                   author |-> calls[c].body.author, created_at |-> now] IN
       /\ comments' = PutRow(comments, calls[c].tmp[1], row)
       /\ IF transport = "grpc" THEN DoneRow(c, row)
          ELSE Goto(c, [calls[c] EXCEPT !.pc = "select"])
    /\ UNCHANGED <<authVars, issues, labels, milestones, idCount>>

\* SELECT * FROM comments WHERE id = ?
SelectComment(tbl, id) == IF id \in DOMAIN tbl THEN tbl[id] ELSE NoRow

CreateCommentReadBack(c) ==
    /\ At(c, "createComment", "select")
    /\ ReadBack(c, SelectComment(comments, calls[c].tmp[1]))
    /\ UNCHANGED <<authVars, dataVars>>

\* alice is logged in (token 1); the database holds no issue or issue 1, and
\* each of MaxCalls clients sends one request
InitRace ==
    /\ transport \in RaceTransports
    /\ now = 0
    /\ users = Alice
    /\ sessions = PutSession(NoSessions, 1, AliceSession)
    /\ tokenCount = 1
    /\ loginAt = IF transport \in TokenTransports
                 THEN PutSession(NoSessions, 1, 0) ELSE [x \in {} |-> 0]
    /\ loggedOut = {}
    /\ \E n \in {0, 1} :
          /\ issues = [i \in 1..n |-> IssueRow(GoodIssue, "closed", "high", 0)]
          /\ idCount = n
    /\ comments = NoRows
    /\ labels = NoRows
    /\ milestones = NoRows
    /\ req = NoRequest
    /\ resp = NoResponse
    /\ calls = [c \in Callers |-> Idle]

NextRace ==
    \E c \in Callers :
        \/ CreateIssueCall(c) \/ CreateIssueInsert(c) \/ CreateIssueReadBack(c)
        \/ UpdateIssueCall(c) \/ UpdateIssueRun(c) \/ UpdateIssueReadBack(c)
        \/ DeleteIssueCall(c) \/ DeleteIssueRun(c)
        \/ CreateCommentCall(c) \/ CreateCommentCheck(c) \/ CreateCommentInsert(c)
        \/ CreateCommentReadBack(c)

SpecRace == InitRace /\ [][NextRace]_vars

\* the read-back of the call of caller c has run and found no row
ReadBackFoundNothing(c) ==
    /\ calls[c].op \in {"createIssue", "updateIssue"}
    /\ \/ calls[c].pc = "crashed"
       \/ calls[c].pc = "done" /\ calls[c].out.code = "OK" /\ calls[c].out.row = NoRow

\* C23: create and update run the write and the read-back as two separate
\* statements; when the read-back finds no row because a concurrent delete of
\* that id ran between the write and the read-back, the call reports a
\* generic error to the caller: it never answers 201/200 with an empty body
\* and never fails with an unhandled exception.
C23_ReadBackFailureIsGenericError == \A c \in Callers : ~ReadBackFoundNothing(c)

\* a step inserts a comment whose issue is in the issues table no more
CommentWrittenForDeletedIssue ==
    \E id \in (DOMAIN comments') \ (DOMAIN comments) :
        comments'[id].issue_id \notin DOMAIN issues

\* C28: in REST, SOAP and gRPC, comment creation checks that the issue exists
\* and then inserts as two separate statements; in every interleaving with a
\* concurrent delete of that issue, a comment row is inserted only if the
\* issue still exists at the time of the insert.
C28_CommentInsertedOnlyForLiveIssue == [][~CommentWrittenForDeletedIssue]_vars

\* ===================================================================
\* bcrypt failures
\* ===================================================================
\* bcrypt.hash and bcrypt.compare can fail (reject, or call back with an
\* error).  Each action below is the run of a register or login handler in
\* which the bcrypt call it makes fails with the error message BcryptError.
BcryptError == "data must be a string or Buffer and salt must either be a salt string or a number of rounds"

\* the request gets no response: the promise it waits on never settles, or
\* the unhandled rejection ends the process
NoAnswerCodes == {"NO_RESPONSE", "PROCESS_EXIT"}

Failed(request, code, msg) ==
    /\ Answer(request, code, msg, "", 0)
    /\ UNCHANGED <<authVars, dataVars>>
    /\ UNCHANGED <<calls, transport, now>>

\* .catch of POST /register: HASH_ERROR with error.message in part_000, a
\* fixed message in app.js
RestRegisterHashError ==
    /\ transport \in RestVariants
    /\ \E username \in Usernames, password \in RegisterPasswords :
         IF transport = "rest"
         THEN Failed(Request("register", username, password, 0),
                     "HASH_ERROR", BcryptError)
         ELSE Failed(Request("register", username, password, 0),
                     "INTERNAL_SERVER_ERROR",
                     "An error occurred during registration. Please try again.")

\* catch of POST /login, reached once the SELECT found the user
RestLoginCompareError ==
    /\ transport \in RestVariants
    /\ \E cookie \in TokenInputs, username \in Usernames, password \in Passwords :
         /\ HasUser(users, username)
         /\ IF transport = "rest"
            THEN Failed(Request("login", username, password, cookie),
                        "HASH_ERROR", BcryptError)
            ELSE Failed(Request("login", username, password, cookie),
                        "INTERNAL_SERVER_ERROR",
                        "An error occurred during login. Please try again.")

SoapRegisterUserHashError ==
    /\ transport = "soap"
    /\ \E username \in Usernames, password \in RegisterPasswords :
         Failed(Request("register", username, password, 0), "HASH_ERROR", BcryptError)

SoapLoginUserCompareError ==
    /\ transport = "soap"
    /\ \E username \in Usernames, password \in Passwords :
         /\ HasUser(users, username)
         /\ Failed(Request("login", username, password, 0), "HASH_ERROR", BcryptError)

\* await bcrypt.hash throws in the resolver: the error of the response
\* carries the message of what was thrown
GqlRegisterUserHashError ==
    /\ transport = "graphql"
    /\ \E username \in Usernames, password \in RegisterPasswords :
         Failed(Request("register", username, password, 0), "ERROR", BcryptError)

\* await bcrypt.compare throws in the callback of db.get, outside the
\* promise the resolver returned: neither resolve nor reject is called
GqlLoginUserCompareError ==
    /\ transport = "graphql"
    /\ \E username \in Usernames, password \in Passwords, code \in NoAnswerCodes :
         /\ HasUser(users, username)
         /\ Failed(Request("login", username, password, 0), code, "")

\* hashErr of Register, reached once the SELECT found no row
GrpcRegisterHashError ==
    /\ transport = "grpc"
    /\ \E username \in Usernames, password \in RegisterPasswords :
         /\ ~HasUser(users, username)
         /\ Failed(Request("register", username, password, 0), "INTERNAL", BcryptError)

\* compareErr of Login
GrpcLoginCompareError ==
    /\ transport = "grpc"
    /\ \E username \in Usernames, password \in Passwords :
         /\ HasUser(users, username)
         /\ Failed(Request("login", username, password, 0), "INTERNAL", BcryptError)

BcryptFails ==
    \/ RestRegisterHashError \/ SoapRegisterUserHashError
    \/ GqlRegisterUserHashError \/ GrpcRegisterHashError
    \/ RestLoginCompareError \/ SoapLoginUserCompareError
    \/ GqlLoginUserCompareError \/ GrpcLoginCompareError

NextFaulty == Next \/ BcryptFails

\* the servers of Spec with a bcrypt that may fail
SpecFaulty == Init /\ [][NextFaulty]_vars

\* C24: when password hashing or comparison fails during register or login,
\* the response in every transport carries only a fixed generic code and
\* message; the underlying library's error message is never included in what
\* is returned to the caller.
C24_HashFailureLeaksNoLibraryMessage ==
    [][BcryptFails => resp'.msg # BcryptError /\ resp'.code \notin NoAnswerCodes]_vars

\* an authenticated update of an existing issue that supplies a status of the
\* enumeration
StatusUpdateAsked ==
    /\ Handled("updateIssue")
    /\ req'.id \in DOMAIN issues
    /\ req'.body.status \in IssueStatuses
    /\ Validate(transport, sessions, req'.token, now)

\* C25: Issue.status has no transition constraints: for every existing issue
\* with status s1 and every s2 in {open, in_progress, resolved, closed}, an
\* authenticated update that supplies status s2 succeeds and leaves the issue
\* with status s2, in every transport that offers update.
C25_AnyStatusReachableByUpdate ==
    [][StatusUpdateAsked
         => resp'.code = "OK" /\ issues'[req'.id].status = req'.body.status]_vars

\* ===================================================================
\* The JWT / in-memory variant
\* ===================================================================
\* routes.js holds two versions of the router: lines 1-107 put only the auth
\* middleware before PUT and DELETE /issues/:id ("jwt"), lines 108-249 add
\* isOwnerOrAdmin ("jwtOwner").  Here users is the users Map of auth.js
\* (email -> user), issues the issues Map of store.js (key -> issue),
\* idCount the number of uuidv4() values generated so far, and sessions the
\* set of payloads the server has signed a token for: the server keeps no
\* token, jwt.verify accepts exactly the tokens signed with its secret.
\* A field of a JSON body or of a stored object is <<v>>, or << >> when the
\* object has no such field.
JwtTransports == {"jwt", "jwtOwner"}

MaxUuids == 4

\* { ...base, ...over }
Spread(base, over) ==
    [f \in (DOMAIN base) \cup (DOMAIN over) |->
        IF f \in DOMAIN over /\ over[f] # << >> THEN over[f]
        ELSE IF f \in DOMAIN base THEN base[f] ELSE << >>]

\* the payload generateToken signs
Payload(user) == [id |-> user.id, email |-> user.email, role |-> user.role]

NoJwt == << >>

AdminUser ==
    [id |-> 1, email |-> "admin@test.com", password |-> Hash("admin123"), role |-> "admin"]

JwtUser(id, email, password) ==
    [id |-> id, email |-> email, password |-> Hash(password), role |-> "user"]

AliceUser == JwtUser(2, "alice@test.com", "secret1")

BobUser == JwtUser(3, "bob@test.com", "secret2")

\* a token alice forged: her payload with the admin role, signed with
\* another secret
ForgedJwt == <<[Payload(AliceUser) EXCEPT !.role = "admin"]>>

JwtInputs ==
    {NoJwt, <<Payload(AdminUser)>>, <<Payload(AliceUser)>>, <<Payload(BobUser)>>,
     ForgedJwt}

\* jwt.verify(token, process.env.JWT_SECRET)
JwtVerify(token) == token # NoJwt /\ token[1] \in sessions

NoBody ==
    [id |-> << >>, title |-> << >>, priority |-> << >>, status |-> << >>,
     userId |-> << >>, createdAt |-> << >>]

NewIssueBody == [NoBody EXCEPT !.title = <<"Bug">>, !.priority = <<"high">>]

PostBodies ==
    {NewIssueBody, [NewIssueBody EXCEPT !.title = << >>],
     [NewIssueBody EXCEPT !.priority = <<"bogus">>],
     [NewIssueBody EXCEPT !.id = <<0>>], [NewIssueBody EXCEPT !.createdAt = <<9>>],
     [NewIssueBody EXCEPT !.userId = <<2>>], [NewIssueBody EXCEPT !.userId = <<3>>]}

PutBodies ==
    {NoBody, [NoBody EXCEPT !.title = <<"Fix">>], [NoBody EXCEPT !.id = <<0>>],
     [NoBody EXCEPT !.createdAt = <<9>>], [NoBody EXCEPT !.userId = <<3>>]}

IssueKeys == 1..MaxUuids

JwtAnswer(request, code, msg, id, row) ==
    /\ req' = request
    /\ resp' = RowResponse(code, msg, id, row)
    /\ UNCHANGED <<calls, transport, now, authVars, comments, labels, milestones>>

\* the auth middleware: 401 without a token or with one that does not verify
JwtAuthFails(request) ==
    IF request.token = NoJwt
    THEN /\ JwtAnswer(request, "UNAUTHORIZED", "No token, authorization denied", 0, NoRow)
         /\ UNCHANGED <<issues, idCount>>
    ELSE /\ JwtAnswer(request, "UNAUTHORIZED", "Token is not valid", 0, NoRow)
         /\ UNCHANGED <<issues, idCount>>

\* Store.createIssue: { id, ...issueData, createdAt, updatedAt } under key id
StoreCreateIssue(id, issueData, time) ==
    Spread(Spread([id |-> <<id>>], issueData),
           [createdAt |-> <<time>>, updatedAt |-> <<time>>])

\* Store.updateIssue: { ...issue, ...data, updatedAt }
StoreUpdateIssue(issue, data, time) ==
    Spread(Spread(issue, data), [updatedAt |-> <<time>>])

\* isOwnerOrAdmin('Issue'), once the resource was found
IsOwnerOrAdmin(user, resource) ==
    user.role = "admin" \/ resource.userId = <<user.id>>

\* router.post('/issues')
JwtPostIssue ==
    /\ transport \in JwtTransports
    /\ \E token \in JwtInputs, body \in PostBodies :
         LET request == DataRequest("createIssue", token, 0, body)
             issue == StoreCreateIssue(NewId, Spread(body, [status |-> <<"open">>]), now) IN
         IF ~JwtVerify(token) THEN JwtAuthFails(request)
         ELSE IF body.title = << >> \/ body.priority \notin {<<p>> : p \in IssuePriorities}
         THEN /\ JwtAnswer(request, "BAD_REQUEST", "Invalid value", 0, NoRow)
              /\ UNCHANGED <<issues, idCount>>
         ELSE /\ NewId <= MaxUuids
              /\ issues' = PutRow(issues, NewId, issue)
              /\ idCount' = NewId
              /\ JwtAnswer(request, "CREATED", "", NewId, issue)

\* router.put('/issues/:id')
JwtPutIssue ==
    /\ transport \in JwtTransports
    /\ \E token \in JwtInputs, id \in IssueKeys, body \in PutBodies :
         LET request == DataRequest("updateIssue", token, id, body) IN
         IF ~JwtVerify(token) THEN JwtAuthFails(request)
         ELSE IF id \notin DOMAIN issues
         THEN /\ JwtAnswer(request, "NOT_FOUND", "Issue not found", 0, NoRow)
              /\ UNCHANGED <<issues, idCount>>
         ELSE IF transport = "jwtOwner" /\ ~IsOwnerOrAdmin(token[1], issues[id])
         THEN /\ JwtAnswer(request, "FORBIDDEN",
                           "Not authorized to perform this action", 0, NoRow)
              /\ UNCHANGED <<issues, idCount>>
         ELSE LET updatedIssue == StoreUpdateIssue(issues[id], body, now) IN
              /\ issues' = [issues EXCEPT ![id] = updatedIssue]
              /\ JwtAnswer(request, "OK", "", id, updatedIssue)
              /\ UNCHANGED idCount

\* router.delete('/issues/:id')
JwtDeleteIssue ==
    /\ transport \in JwtTransports
    /\ \E token \in JwtInputs, id \in IssueKeys :
         LET request == DataRequest("deleteIssue", token, id, NoBody) IN
         IF ~JwtVerify(token) THEN JwtAuthFails(request)
         ELSE IF id \notin DOMAIN issues
         THEN /\ JwtAnswer(request, "NOT_FOUND", "Issue not found", 0, NoRow)
              /\ UNCHANGED <<issues, idCount>>
         ELSE IF transport = "jwtOwner" /\ ~IsOwnerOrAdmin(token[1], issues[id])
         THEN /\ JwtAnswer(request, "FORBIDDEN",
                           "Not authorized to perform this action", 0, NoRow)
              /\ UNCHANGED <<issues, idCount>>
         ELSE /\ issues' = DeleteRow(issues, id)
              /\ JwtAnswer(request, "NO_CONTENT", "", id, NoRow)
              /\ UNCHANGED idCount

\* The admin of auth.js, and alice and bob who have registered; each of the
\* three holds a token.  The store is empty.
InitStore ==
    /\ transport \in JwtTransports
    /\ now = 0
    /\ users = [e \in {"admin@test.com", "alice@test.com", "bob@test.com"} |->
                  CASE e = "admin@test.com" -> AdminUser
                    [] e = "alice@test.com" -> AliceUser
                    [] OTHER -> BobUser]
    /\ sessions = {Payload(AdminUser), Payload(AliceUser), Payload(BobUser)}
    /\ tokenCount = 3
    /\ loginAt = [x \in {} |-> 0]
    /\ loggedOut = {}
    /\ issues = NoRows
    /\ comments = NoRows
    /\ labels = NoRows
    /\ milestones = NoRows
    /\ idCount = 3
    /\ req = NoRequest
    /\ resp = NoResponse
    /\ calls = NoCalls

NextStore == JwtPostIssue \/ JwtPutIssue \/ JwtDeleteIssue

SpecStore == InitStore /\ [][NextStore]_vars

\* the step serves an update or a delete of the issue that the request
\* before it created, sent by the non-admin user of a verified token
TouchesIssueJustCreated ==
    /\ transport = "jwtOwner"
    /\ req.op = "createIssue" /\ resp.code = "CREATED"
    /\ req'.op \in {"updateIssue", "deleteIssue"}
    /\ req'.id = resp.id
    /\ JwtVerify(req'.token) /\ req'.token[1].role # "admin"

\* C26: in the JWT/in-memory variant, a non-admin user can update or delete an
\* issue if and only if that user created it: an issue created by user A
\* through POST /issues can afterwards be updated and deleted by A, and by no
\* other non-admin user B, whatever the request bodies contain.
C26_OnlyCreatorUpdatesOrDeletes ==
    [][TouchesIssueJustCreated
         => (resp'.code \in {"OK", "NO_CONTENT"} <=> req'.token = req.token)]_vars

\* after the step every issue is stored under its own id, and an issue that
\* was there before has the createdAt it had
StoreKeepsIdentity ==
    /\ \A k \in DOMAIN issues' : issues'[k].id = <<k>>
    /\ \A k \in (DOMAIN issues) \cap (DOMAIN issues') :
          issues'[k].createdAt = issues[k].createdAt

\* C30: in the in-memory store, after any sequence of createIssue, updateIssue
\* and deleteIssue calls with arbitrary request bodies, every entry of the
\* issues map is stored under a key equal to its own id field, that id is the
\* server-generated UUID, and createdAt is never changed by an update.
C30_StoreKeyIsIdAndCreatedAtFixed == [][StoreKeepsIdentity]_vars

\* ------------------------------------------------------ auth.register
\* check('email').isEmail() on the addresses a request may carry
EmailInputs == {"alice@test.com", "bob@test.com", "admin@test.com", "alice"}

IsEmail(email) == email \in {"alice@test.com", "bob@test.com", "admin@test.com"}

JwtPasswords == {"secret1", "secret2", "short"}

MinPasswordLength == 6

\* users.set(email, user)
SetUser(map, email, user) ==
    [e \in (DOMAIN map) \cup {email} |-> IF e = email THEN user ELSE map[e]]

\* router.post('/register') up to the await in auth.register: the validation
\* result, users.has(email), bcrypt.hash started
JwtRegisterCall(c) ==
    /\ transport = "jwt"
    /\ calls[c] = Idle
    /\ \E email \in EmailInputs, password \in JwtPasswords :
         LET call == Call("register", "hash", NoToken, 0,
                          [email |-> email, password |-> password], << >>, NoOut) IN
         IF ~IsEmail(email) \/ Len(password) < MinPasswordLength
         THEN Refuse(c, call, "BAD_REQUEST", "Invalid value")
         ELSE IF email \in DOMAIN users
         THEN Refuse(c, call, "BAD_REQUEST", "User already exists")
         ELSE Goto(c, call)
    /\ UNCHANGED <<authVars, dataVars>>

\* auth.register after the await: uuidv4(), users.set, generateToken
JwtRegisterStore(c) ==
    /\ transport = "jwt"
    /\ At(c, "register", "hash")
    /\ NewId <= MaxUuids
    /\ LET user == JwtUser(NewId, calls[c].body.email, calls[c].body.password) IN
       /\ users' = SetUser(users, user.email, user)
       /\ idCount' = NewId
       /\ sessions' = sessions \cup {Payload(user)}
       /\ Goto(c, [calls[c] EXCEPT !.pc = "done", !.tmp = <<Payload(user)>>,
                                   !.out = Out("OK", "")])
    /\ UNCHANGED <<tokenCount, loginAt, loggedOut, issues, comments, labels, milestones>>

\* auth.js as loaded: the users Map holds the test admin; MaxCalls clients
\* each send one POST /register
InitAuth ==
    /\ transport = "jwt"
    /\ now = 0
    /\ users = [e \in {"admin@test.com"} |-> AdminUser]
    /\ sessions = {}
    /\ tokenCount = 0
    /\ loginAt = [x \in {} |-> 0]
    /\ loggedOut = {}
    /\ issues = NoRows
    /\ comments = NoRows
    /\ labels = NoRows
    /\ milestones = NoRows
    /\ idCount = 1
    /\ req = NoRequest
    /\ resp = NoResponse
    /\ calls = [c \in Callers |-> Idle]

NextAuth == \E c \in Callers : JwtRegisterCall(c) \/ JwtRegisterStore(c)

SpecAuth == InitAuth /\ [][NextAuth]_vars

\* C27: in the in-memory credential store, register(email, password) checks
\* for an existing user, awaits the password hash, and only then stores the
\* user; in every interleaving of concurrent register calls for the same
\* email, exactly one call succeeds and the stored record (id and password
\* hash) of a registered email is never replaced by a later register.
C27_RegisteredRecordNeverReplaced ==
    [][/\ \A e \in DOMAIN users : e \in DOMAIN users' /\ users'[e] = users[e]
       /\ \A a, b \in Callers :
             (/\ a # b
              /\ calls'[a].op = "register" /\ calls'[b].op = "register"
              /\ calls'[a].body.email = calls'[b].body.email)
             => ~(calls'[a].out.code = "OK" /\ calls'[b].out.code = "OK")]_vars

\* ===================================================================
\* The SOAP session map over time
\* ===================================================================
\* The SOAP server alone: the clock advances, and a client that keeps sending
\* Logout requests keeps being served.
InitSoap == Init /\ transport = "soap"

NextSoap == Tick \/ SoapRegisterUser \/ SoapLoginUser \/ SoapLogout \/ SoapGetProfile

SpecLive == InitSoap /\ [][NextSoap]_vars /\ WF_vars(Tick) /\ WF_vars(SoapLogout)

\* the entry of token t is in the map and its expiry has passed
ExpiredEntry(t) == t \in DOMAIN sessions /\ sessions[t].expires <= now

\* C29: every session entry is eventually destroyed: an entry whose expiry
\* has passed does not stay in the sessions map forever (in SOAP, a Logout
\* that presents an expired token removes it).
C29_ExpiredEntryEventuallyRemoved ==
    \A t \in 1..MaxTokens : ExpiredEntry(t) ~> (t \notin DOMAIN sessions)

====
